---- MODULE Spec2Model ----
(***************************************************************************)
(* Model of the HPE iLO power management script (src/hpe/ilo_power_1.0.4.py)*)
(*                                                                         *)
(*   Spec       one worker running per-target operations, one after the    *)
(*              other, against one device: RedfishSession.__enter__ /      *)
(*              __exit__, get_power_status, power_on_system,               *)
(*              power_off_system, get_power_watts, get_cpu_utilization.    *)
(*   SpecBatch  the thread-pool fan-out of main() and of the monitoring    *)
(*              loops over a list of targets.                              *)
(***************************************************************************)
EXTENDS Integers, Sequences, FiniteSets, TLC

(***************************************************************************)
(* Bounds of the model                                                     *)
(***************************************************************************)
\* largest max_retries a RedfishSession is constructed with (smallest is -1)
MaxRetriesBound == 1
\* number of operations called one after the other on the device
MaxCalls == 2

(***************************************************************************)
(* Program constants                                                       *)
(***************************************************************************)
\* RedfishSession.__init__(..., retry_delay=2)
retry_delay == 2
\* get_power_watts(..., timeout=30): the timeout handed to every client.get
timeout == 30
\* get_cpu_utilization(..., timeout=60)
cpu_timeout == 60

\* seconds one request to a device takes: a fast and a slow device, both
\* answering within the timeout of a request
Latencies == {1, 20}

\* metric values a device may report
Vals == {0, 5}

\* HTTP statuses a device may answer a reset request with
Statuses == {200, 202, 204, 400}

\* longest PowerControl list / Members list a device answers with
MaxMembers == 2
\* processes saving to the same CSV file, and saves each of them makes
MaxWriters == 2
MaxSaves == 3
\* most targets in ilo_systems, largest worker pool, most monitoring ticks
MaxTargets == 2
MaxWorkers == 2
MaxIterations == 2
\* most data rows of the systems file
MaxRows == 3

(***************************************************************************)
(* Values                                                                  *)
(***************************************************************************)
NoneV == [k |-> "None", v |-> 0, n |-> 0]
Num(x) == [k |-> "num", v |-> x, n |-> 1]
Bool(b) == [k |-> "bool", v |-> IF b THEN 1 ELSE 0, n |-> 0]
Unset == [k |-> "unset", v |-> 0, n |-> 0]
\* a JSON key that is missing, and a value that is a string
Absent == [k |-> "absent", v |-> 0, n |-> 0]
Str == [k |-> "str", v |-> 0, n |-> 0]
\* the result dictionary of get_system_metrics (its fields: watts, cpu_load)
Dict == [k |-> "dict", v |-> 0, n |-> 0]
\* np.mean of a list of numbers, kept exact as sum / count
Mean(sum, cnt) == [k |-> "mean", v |-> sum, n |-> cnt]

\* what a JSON key of a metric may hold
FieldVals == {Absent, NoneV} \cup {Num(x) : x \in Vals}

SeqsUpTo(S, m) == UNION {[1 .. j -> S] : j \in 0 .. m}

\* the operations a worker runs on one target
PowerOps == {"power_on", "power_off"}
Ops == PowerOps \cup {"get_power", "get_cpu", "get_system_metrics"}

VARIABLES
    \* ---- the device ----
    power,          \* actual power state of the device: "On" or "Off"
    \* ---- the running call ----
    op,             \* operation being run, "none" before the first call
    force,          \* power_off_system's force argument
    pc,             \* position of the worker inside the operation
    max_retries,    \* RedfishSession.max_retries
    retries,        \* __enter__'s local retries
    attempts,       \* loop iterations of __enter__ in this call
    sleeps,         \* time.sleep(retry_delay) calls in this call
    fails,          \* the logins of every failed attempt of this call
    entered,        \* what __enter__ did: "client", the exception it raised,
                    \* or "no" while it runs
    client,         \* RedfishSession.client: "None" or "client"
    loggedIn,       \* the client has logged in and not logged out since
    logins,         \* successful logins in this call
    logouts,        \* logout calls made on a logged-in client in this call
    current_state,  \* power_on/off_system's local current_state
    warned,         \* the "could not determine current power state" warning
    resp,           \* answer to the reset POST: Unset before it, Num(status)
                    \* of the response, Absent when client.post raised
    reqs,           \* requests sent to the device in this call, in order
    pending,        \* exception unwinding through the with-scope
    exc,            \* exception that left the operation ("none" if returned)
    ret,            \* value the operation returned
    latency,        \* seconds the device takes to answer one request
    elapsed,        \* seconds spent in this call
    startPower,     \* power state of the device when the call started
    watts,          \* result of get_power_watts in this call
    cpu_load,       \* result of get_cpu_utilization in this call
    yields,         \* what every probe run in this call yielded, in order
    probeRaised,    \* a request of some probe of this call raised
    \* ---- finished calls ----
    calls,          \* summary of every finished power call, in order
    \* ---- the fan-out (SpecBatch) ----
    mode,           \* the action selected on the command line
    ntargets,       \* len(ilo_systems)
    workers,        \* max_workers of the ThreadPoolExecutor
    iterations,     \* monitor_*'s iterations argument (NoLimit for None)
    iteration,      \* monitor_*'s local iteration
    bpc,            \* position of the main thread
    tstate,         \* state of the future of every target
    tres,           \* what the call for every target returned
    ci,             \* index of the next future list(executor.map()) reads
    collected,      \* the list being built by list(executor.map())
    results,        \* the variable results (<<>> until it is assigned)
    snapshots,      \* rows handed to the CSV sink by the monitoring loop
    outcome,        \* how the run ended
    \* ---- the monitoring loop's clock and the main thread's exception ----
    interval,       \* interval_minutes * 60, in seconds
    work,           \* seconds the work of the last summarised tick took
    slept,          \* seconds slept after that work
    mainExc,        \* exception unwinding in the main thread
    \* ---- the CSV file and its writers (SpecCsv) ----
    csvExists,      \* Path(csv_path).exists()
    csvFile,        \* the lines of the file, in order
    wpc,            \* position of every writer inside save_power_data_to_csv
    file_exists,    \* every writer's local file_exists
    wsaves,         \* successful saves of every writer
    saved,          \* the rows of the successful saves, in order of return
    \* ---- one function applied to one input (SpecPure) ----
    fn,             \* the function: "cpu4", "cpu5", "read_csv", or "none"
    arg,            \* what the device answers to the function's requests;
                    \* the columns found and the rows read of the file
    out,            \* what the function computed (Unset before it ran)
    goes,           \* "call" before it ran, then where the caller goes
    \* ---- monitor_power_periodically of version 1.0.0 (SpecLegacy) ----
    ilo_systems,    \* the target list: one dictionary per target
    got             \* what the requests of the running tick yielded, per
                    \* target

svars == <<power, op, force, pc, max_retries, retries, attempts, sleeps,
           fails, client, loggedIn, logins, logouts, current_state, warned,
           resp, reqs, pending, exc, ret, latency, elapsed, startPower, watts,
           cpu_load, entered, probeRaised,
           yields, calls>>

bvars == <<mode, ntargets, workers, iterations, iteration, bpc, tstate, tres,
           ci, collected, results, snapshots, outcome>>

lvars == <<interval, work, slept, mainExc>>

cvars == <<csvExists, csvFile, wpc, file_exists, wsaves, saved>>

pvars == <<fn, arg, out, goes>>

gvars == <<ilo_systems, got>>

vars == <<svars, bvars, lvars, cvars, pvars, gvars>>

\* the session manager's fields and counters
sessv == <<max_retries, retries, attempts, sleeps, fails, entered, client,
           loggedIn, logins, logouts>>
\* locals of the metric discovery
metv == <<watts, cpu_load, yields, probeRaised>>

(***************************************************************************)
(* main.get_power / main.get_cpu wrap the with-statement in try/except and *)
(* turn every exception into None; the other operations do not.            *)
(***************************************************************************)
WrapperCatches(o) == o \in {"get_power", "get_cpu"}

\* what leaves the operation when exception e unwinds out of it
ExcOut(o, e) == IF WrapperCatches(o) THEN "none" ELSE e
RetOut(o, e, r) == IF e = "none" THEN r
                   ELSE IF WrapperCatches(o) THEN NoneV ELSE Unset

\* the state the requested operation wants the device in
Requested(o) == IF o = "power_on" THEN "On" ELSE "Off"

\* a power-off that always forces
ResetType_AlwaysForce(o, f) == IF o = "power_on" THEN "On" ELSE "ForceOff"

\* reset_type = "ForceOff" if force else "GracefulShutdown"; power on: "On"
ResetType(o, f) == IF o = "power_on" THEN "On"
                   ELSE IF f THEN "ForceOff" ELSE "GracefulShutdown"

SInit ==
    /\ power \in {"On", "Off"}
    /\ op = "none"
    /\ force = FALSE
    /\ pc = "idle"
    /\ max_retries \in -1 .. MaxRetriesBound
    /\ retries = 0
    /\ attempts = 0
    /\ sleeps = 0
    /\ fails = <<>>
    /\ entered = "no"
    /\ client = "None"
    /\ loggedIn = FALSE
    /\ logins = 0
    /\ logouts = 0
    /\ current_state = "unset"
    /\ warned = FALSE
    /\ resp = Unset
    /\ reqs = <<>>
    /\ pending = "none"
    /\ exc = "none"
    /\ ret = Unset
    /\ latency = 1
    /\ elapsed = 0
    /\ startPower = power
    /\ watts = NoneV
    /\ cpu_load = NoneV
    /\ yields = <<>>
    /\ probeRaised = FALSE
    /\ calls = <<>>

(***************************************************************************)
(* A call of one operation: RedfishSession(system) is constructed and the  *)
(* with-statement is entered.  A power operation may be called again, with *)
(* the same arguments, once it has returned.                               *)
(***************************************************************************)
Call ==
    /\ \/ pc = "idle"
       \/ pc = "done" /\ op \in PowerOps /\ Len(calls) < MaxCalls
    /\ \E o \in Ops, f \in BOOLEAN :
         /\ (pc = "done" => o = op /\ f = force)
         /\ (o # "power_off" => f = FALSE)
         /\ op' = o
         /\ force' = f
    /\ latency' \in Latencies
    /\ pc' = "enter"
    /\ retries' = 0
    /\ attempts' = 0
    /\ sleeps' = 0
    /\ fails' = <<>>
    /\ entered' = "no"
    /\ client' = "None"
    /\ loggedIn' = FALSE
    /\ logins' = 0
    /\ logouts' = 0
    /\ current_state' = "unset"
    /\ warned' = FALSE
    /\ resp' = Unset
    /\ reqs' = <<>>
    /\ pending' = "none"
    /\ exc' = "none"
    /\ ret' = Unset
    /\ elapsed' = 0
    /\ startPower' = power
    /\ watts' = NoneV
    /\ cpu_load' = NoneV
    /\ yields' = <<>>
    /\ probeRaised' = FALSE
    /\ UNCHANGED <<power, max_retries, calls>>
    /\ UNCHANGED <<bvars, lvars, cvars, pvars, gvars>>

(***************************************************************************)
(* The operation is left: by a return (e = "none") or by exception e.      *)
(* A summary of the call is kept for the claims about sequences of calls.  *)
(***************************************************************************)
Posts(rq) == Cardinality({i \in 1 .. Len(rq) : rq[i][1] = "POST"})

Summary(e, r, rq) ==
    [op |-> op, force |-> force, startPower |-> startPower,
     read |-> current_state, posts |-> Posts(rq), ret |-> RetOut(op, e, r)]

Leave(e, r, rq) ==
    /\ pc' = "done"
    /\ exc' = ExcOut(op, e)
    /\ ret' = RetOut(op, e, r)
    /\ calls' = IF op \in PowerOps THEN Append(calls, Summary(e, r, rq))
                ELSE calls

\* a power operation that posts the reset without reading the state
BodyStart_SkipRead(o) == IF o \in PowerOps THEN "reset" ELSE "identifier"

\* first position of the with-body of operation o
BodyStart(o) == IF o \in PowerOps THEN "status" ELSE "identifier"

\* outcomes of client.login(auth=...): accepted, credentials rejected, or a
\* connection-level exception raised by the call
LoginOutcomes == {"ok", "auth", "conn"}
\* outcomes of redfish.redfish_client(...): created, a
\* redfish.rest.connections.ConnectionError, or any other exception
CreateOutcomes == {"ok", "conn", "other"}

(***************************************************************************)
(* RedfishSession.__enter__: how one iteration of `while retries <=        *)
(* self.max_retries` ends.  c is what redfish_client(...) does, s and b    *)
(* what login(auth="session") and login(auth="basic") do.                  *)
(*   "retry"  an exception reached `except ...ConnectionError` or `except  *)
(*            Exception` of the outer try                                  *)
(*   "client" a login succeeded: return self.client                        *)
(*   "auth"   both logins raised: raise AuthenticationError, which `except *)
(*            AuthenticationError: raise` lets out of __enter__            *)
(***************************************************************************)
\* an __enter__ that treats a failed login like a connection failure
AttemptResult_RetryAuth(c, s, b) ==
    IF c # "ok" THEN "retry"
    ELSE IF s = "ok" \/ b = "ok" THEN "client"
    ELSE "retry"

AttemptResult(c, s, b) ==
    IF c # "ok" THEN "retry"
    ELSE IF s = "ok" \/ b = "ok" THEN "client"
    ELSE "auth"

\* what a login call did, as the request log keeps it
Outcome(l) == IF l = "ok" THEN "ok" ELSE "failed"

\* an __enter__ that tries the basic login whatever the session login did
AttemptReqs_BothAlways(c, s, b) ==
    IF c # "ok" THEN <<<<"create", "fails">>>>
    ELSE <<<<"create", "ok">>, <<"login", "session", Outcome(s)>>,
           <<"login", "basic", Outcome(b)>>>>

\* the calls of one iteration, in order, logins with their outcome: basic
\* login only after a failed session login, logout (errors ignored) only
\* after both failed
AttemptReqs(c, s, b) ==
    IF c # "ok" THEN <<<<"create", "fails">>>>
    ELSE IF s = "ok"
    THEN <<<<"create", "ok">>, <<"login", "session", Outcome(s)>>>>
    ELSE IF b = "ok"
    THEN <<<<"create", "ok">>, <<"login", "session", Outcome(s)>>,
           <<"login", "basic", Outcome(b)>>>>
    ELSE <<<<"create", "ok">>, <<"login", "session", Outcome(s)>>,
           <<"login", "basic", Outcome(b)>>, <<"logout", "unauth">>>>

EnterAttempt ==
    /\ pc = "enter"
    /\ retries <= max_retries
    /\ \E c \in CreateOutcomes, s \in LoginOutcomes, b \in LoginOutcomes :
         LET res == AttemptResult(c, s, b) IN
         /\ (c # "ok" => s = "ok" /\ b = "ok")
         /\ (s = "ok" => b = "ok")
         /\ attempts' = attempts + 1
         /\ reqs' = reqs \o AttemptReqs(c, s, b)
         /\ CASE res = "client" ->
                 /\ client' = "client"
                 /\ loggedIn' = TRUE
                 /\ logins' = logins + 1
                 /\ entered' = "client"
                 /\ pc' = BodyStart(op)
                 /\ elapsed' = elapsed + latency
                 /\ UNCHANGED <<fails, retries, sleeps, exc, ret, calls>>
              [] res = "auth" ->
                 /\ client' = "None"
                 /\ fails' = Append(fails, [session |-> s, basic |-> b])
                 /\ entered' = "AuthenticationError"
                 /\ Leave("AuthenticationError", Unset, reqs')
                 /\ elapsed' = elapsed + latency
                 /\ UNCHANGED <<loggedIn, logins, retries, sleeps>>
              [] res = "retry" ->
                 /\ client' = "None"
                 /\ fails' = Append(fails,
                        IF c # "ok" THEN [session |-> "na", basic |-> "na"]
                        ELSE [session |-> s, basic |-> b])
                 /\ UNCHANGED <<loggedIn, logins>>
                 /\ IF retries >= max_retries
                    THEN /\ entered' = "ConnectionError"
                         /\ Leave("ConnectionError", Unset, reqs')
                         /\ elapsed' = elapsed + latency
                         /\ UNCHANGED <<retries, sleeps>>
                    ELSE \* time.sleep(self.retry_delay); retries += 1
                         /\ sleeps' = sleeps + 1
                         /\ retries' = retries + 1
                         /\ elapsed' = elapsed + latency + retry_delay
                         /\ UNCHANGED <<pc, exc, ret, calls, entered>>
    /\ UNCHANGED <<power, op, force, max_retries, logouts, current_state,
                   warned, resp, pending, startPower, latency,
                   metv>>
    /\ UNCHANGED <<bvars, lvars, cvars, pvars, gvars>>

(***************************************************************************)
(* RedfishSession.__enter__ when the while loop is not entered: raise      *)
(* ConnectionError(error_msg) (lines 623-628).                             *)
(***************************************************************************)
EnterExhausted ==
    /\ pc = "enter"
    /\ retries > max_retries
    /\ entered' = "ConnectionError"
    /\ Leave("ConnectionError", Unset, reqs)
    /\ UNCHANGED <<power, op, force, max_retries, retries, attempts, sleeps,
                   fails, client, loggedIn, logins, logouts, current_state,
                   warned, resp, reqs, pending, elapsed, startPower,
                   latency, metv>>
    /\ UNCHANGED <<bvars, lvars, cvars, pvars, gvars>>

\* an __exit__ that drops the client without logging out
LogoutOnExit_Never(cl) == FALSE

\* __exit__: `if self.client:` guards the logout
LogoutOnExit(cl) == cl # "None"

(***************************************************************************)
(* RedfishSession.__exit__, then the operation returns or the exception    *)
(* that unwound through the with-scope goes on.  A logout request that     *)
(* raises is swallowed (lo = "raises").                                    *)
(***************************************************************************)
Exit ==
    /\ pc = "exit"
    /\ \E lo \in {"ok", "raises"} :
         IF LogoutOnExit(client)
         THEN /\ logouts' = logouts + 1
              /\ loggedIn' = FALSE
              /\ reqs' = Append(reqs, <<"logout", lo>>)
              /\ elapsed' = elapsed + latency
         ELSE /\ lo = "ok"
              /\ UNCHANGED <<logouts, loggedIn, reqs, elapsed>>
    /\ client' = "None"
    /\ Leave(pending, ret, reqs')
    /\ pending' = "none"
    /\ UNCHANGED <<power, op, force, max_retries, retries, attempts, sleeps,
                   fails, entered, logins, current_state, warned, resp,
                   startPower, latency, metv>>
    /\ UNCHANGED <<bvars, lvars, cvars, pvars, gvars>>

(***************************************************************************)
(* get_power_status(client, ip): GET Systems/1 and map the answer to a     *)
(* state string.  g is what the request does:                              *)
(*   ok        200 with a JSON body holding PowerState                     *)
(*   nokey     200 with a JSON body without PowerState                     *)
(*   emptyjson 200 with an empty JSON value ({} or null)                   *)
(*   non200    a status other than 200                                     *)
(*   empty     200 with an empty body                                      *)
(*   badjson   200 with a body that is not JSON                            *)
(*   noresp    a falsy response object                                     *)
(*   exc       client.get raises: resp and data are never bound, and the   *)
(*             `if data is None and resp ...` after the try raises         *)
(*             UnboundLocalError (a NameError)                             *)
(***************************************************************************)
StatusReads == {"ok", "nokey", "emptyjson", "non200", "empty", "badjson",
                "noresp", "exc"}

get_power_status(g, dev) ==
    CASE g = "ok"        -> dev
      [] g = "nokey"     -> "Unknown"
      [] g = "emptyjson" -> "Unknown"
      [] g = "non200"    -> "Unknown (Status n)"
      [] g = "empty"     -> "Unknown (Empty Response)"
      [] g = "badjson"   -> "Unknown (JSON Error)"
      [] g = "noresp"    -> "Unknown (JSON Error)"
      [] g = "exc"       -> "raise NameError"

\* a test for the bare state "Unknown" only
StartsWithUnknown_Exact(st) == st = "Unknown"

\* current_state.startswith("Unknown")
StartsWithUnknown(st) ==
    st \in {"Unknown", "Unknown (Status n)", "Unknown (Empty Response)",
            "Unknown (JSON Error)"}

\* a controller that never skips the reset
AlreadyInState_Never(o, st) == FALSE

\* power_on_system: `if current_state == "On": return True`;
\* power_off_system: `if current_state == "Off": return True`
AlreadyInState(o, st) == st = Requested(o)

(***************************************************************************)
(* power_on_system / power_off_system, first half: read the current state  *)
(* and decide (lines 1146-1152, 1184-1190).                                *)
(***************************************************************************)
CheckState ==
    /\ pc = "status"
    /\ \E g \in StatusReads :
         LET st == get_power_status(g, power)
             d == latency IN
         /\ reqs' = Append(reqs, <<"GET", "Systems/1">>)
         /\ elapsed' = elapsed + d
         /\ IF st = "raise NameError"
            THEN /\ pending' = "NameError"
                 /\ pc' = "exit"
                 /\ UNCHANGED <<current_state, warned, ret>>
            ELSE /\ current_state' = st
                 /\ pending' = "none"
                 /\ IF AlreadyInState(op, st)
                    THEN /\ ret' = Bool(TRUE)
                         /\ pc' = "exit"
                         /\ UNCHANGED warned
                    ELSE /\ warned' = StartsWithUnknown(st)
                         /\ pc' = "reset"
                         /\ UNCHANGED ret
    /\ UNCHANGED <<power, op, force, sessv, resp, exc, startPower, latency,
                   metv, calls>>
    /\ UNCHANGED <<bvars, lvars, cvars, pvars, gvars>>

\* a power operation that takes only 200 for success
ResetAccepted_Only200(status) == status = 200

\* `if resp.status in [200, 202, 204]`
ResetAccepted(status) == status \in {200, 202, 204}

(***************************************************************************)
(* power_on_system / power_off_system, second half: POST the reset action  *)
(* and return by its status; an exception of the POST gives False.         *)
(* An accepted On / ForceOff changes the device; an accepted               *)
(* GracefulShutdown may or may not be carried out by the operating system. *)
(***************************************************************************)
\* a power operation that reports success when client.post raised
ResetResult_TrueOnRaise(raises, status) ==
    IF raises THEN Bool(TRUE) ELSE Bool(ResetAccepted(status))

\* what the try block around client.post returns: False from `except
\* Exception`, else the test of resp.status
ResetResult(raises, status) ==
    IF raises THEN Bool(FALSE) ELSE Bool(ResetAccepted(status))

SendReset ==
    /\ pc = "reset"
    /\ \E raises \in BOOLEAN, status \in Statuses, obeyed \in BOOLEAN :
         LET rt == ResetType(op, force)
             d == latency IN
         /\ reqs' = Append(reqs, <<"POST", rt>>)
         /\ elapsed' = elapsed + d
         /\ ret' = ResetResult(raises, status)
         /\ IF raises
            THEN /\ status = 200 /\ obeyed = FALSE
                 /\ resp' = Absent
                 /\ UNCHANGED power
            ELSE /\ resp' = Num(status)
                 /\ IF /\ status \in {200, 202, 204}
                       /\ (obeyed \/ rt # "GracefulShutdown")
                    THEN power' = Requested(op)
                    ELSE /\ UNCHANGED power
                         /\ (rt # "GracefulShutdown" => obeyed = FALSE)
    /\ pc' = "exit"
    /\ UNCHANGED <<op, force, sessv, current_state, warned, pending, exc,
                   startPower, latency, metv, calls>>
    /\ UNCHANGED <<bvars, lvars, cvars, pvars, gvars>>

(***************************************************************************)
(* Metric discovery                                                        *)
(***************************************************************************)
\* a test by truth value (`if x:`), false for the number 0 as well
IsNotNone_Truthy(x) == x.k # "None" /\ ~(x.k \in {"num", "mean"} /\ x.v = 0)

\* `x is not None`
IsNotNone(x) == x.k # "None"
\* `key in d` followed by d.get(key): None when the key is missing
Get(f) == IF f.k = "absent" THEN NoneV ELSE f
Has(f) == f.k # "absent"

\* where the worker goes once get_power_watts has returned
AfterWatts(o) == IF o = "get_power" THEN "exit" ELSE "cpu1"

\* the value the operation returns when it leaves the with-body
RetAt(o, w, c) == CASE o = "get_power" -> w
                    [] o = "get_cpu"   -> c
                    [] OTHER           -> Dict

\* a discovery that goes on probing after a probe yielded a value
ProbeNext_CrossCheck(y, nextPc, retPc) == nextPc

\* a discovery that gives up at the first probe without a value
ProbeNext_GiveUp(y, nextPc, retPc) == retPc

\* a probe that yields a value returns it at once; otherwise the next probe
ProbeNext(y, nextPc, retPc) == IF IsNotNone(y) THEN retPc ELSE nextPc

(***************************************************************************)
(* get_system_identifier(client): GET Systems/1; every exception of the    *)
(* request is swallowed and the identifier stays "Unknown".                *)
(***************************************************************************)
Identifier ==
    /\ pc = "identifier"
    /\ elapsed' = elapsed + latency
    /\ reqs' = Append(reqs, <<"GET", "Systems/1">>)
    /\ pc' = IF op = "get_cpu" THEN "cpu1" ELSE "watts1"
    /\ UNCHANGED <<power, op, force, sessv, current_state, warned, resp,
                   pending, exc, ret, startPower, latency, metv, calls>>
    /\ UNCHANGED <<bvars, lvars, cvars, pvars, gvars>>

(***************************************************************************)
(* Answers to the three power probes.  kind: "exc" the request raises,     *)
(* "nodata" _safe_get_json gives None or {}, "data" a JSON object.         *)
(***************************************************************************)
\* Chassis/1/Power: pcl is the PowerControl list, one PowerConsumedWatts
\* field per entry (an empty list also stands for a missing PowerControl)
Power1Resps ==
    {[kind |-> kd, pcl |-> <<>>] : kd \in {"exc", "nodata"}}
    \cup {[kind |-> "data", pcl |-> l] : l \in SeqsUpTo(FieldVals, MaxMembers)}

\* PowerSubsystem/PowerMetrics: pm is PowerMetrics.PowerConsumedWatts,
\* direct is PowerConsumedWatts, alt is PowerWatts
Power2Resps ==
    {[kind |-> kd, pm |-> Absent, direct |-> Absent, alt |-> Absent] :
        kd \in {"exc", "nodata"}}
    \cup {[kind |-> "data", pm |-> a, direct |-> b, alt |-> c] :
        a \in FieldVals, b \in FieldVals, c \in FieldVals}

\* Systems/1: oem is Oem.Hpe.PowerConsumedWatts
Power3Resps ==
    {[kind |-> kd, oem |-> Absent] : kd \in {"exc", "nodata"}}
    \cup {[kind |-> "data", oem |-> a] : a \in FieldVals}

\* Method 1: the first PowerControl entry whose PowerConsumedWatts is not None
RECURSIVE FirstValid(_)
FirstValid(l) ==
    IF l = <<>> THEN NoneV
    ELSE IF Has(Head(l)) /\ IsNotNone(Get(Head(l))) THEN Get(Head(l))
    ELSE FirstValid(Tail(l))

ExtractPower1(r) == IF r.kind # "data" THEN NoneV ELSE FirstValid(r.pcl)

\* Method 2: if / elif / elif on the presence of the key
ExtractPower2(r) ==
    IF r.kind # "data" THEN NoneV
    ELSE IF Has(r.pm) THEN Get(r.pm)
    ELSE IF Has(r.direct) THEN Get(r.direct)
    ELSE IF Has(r.alt) THEN Get(r.alt)
    ELSE NoneV

\* Method 3
ExtractPower3(r) ==
    IF r.kind # "data" THEN NoneV
    ELSE IF Has(r.oem) THEN Get(r.oem) ELSE NoneV

\* common part of the three methods of get_power_watts
WattsStep(m, path, raised, y, nextPc) ==
    /\ elapsed' = elapsed + latency
    /\ probeRaised' = (probeRaised \/ raised)
    /\ reqs' = Append(reqs, <<"GET", path>>)
    /\ yields' = Append(yields, [m |-> m, y |-> y])
    /\ watts' = y
    /\ pc' = ProbeNext(y, nextPc, AfterWatts(op))
    /\ ret' = IF pc' = "exit" THEN RetAt(op, y, cpu_load) ELSE ret
    /\ UNCHANGED <<power, op, force, sessv, current_state, warned, resp,
                   pending, exc, startPower, latency, cpu_load, calls>>
    /\ UNCHANGED <<bvars, lvars, cvars, pvars, gvars>>

Watts1 ==
    /\ pc = "watts1"
    /\ \E r \in Power1Resps :
         WattsStep("watts1", "Chassis/1/Power", r.kind = "exc",
                   ExtractPower1(r), "watts2")

Watts2 ==
    /\ pc = "watts2"
    /\ \E r \in Power2Resps :
         WattsStep("watts2", "Chassis/1/PowerSubsystem/PowerMetrics",
                   r.kind = "exc", ExtractPower2(r), "watts3")

Watts3 ==
    /\ pc = "watts3"
    /\ \E r \in Power3Resps :
         WattsStep("watts3", "Systems/1", r.kind = "exc", ExtractPower3(r),
                   AfterWatts(op))

(***************************************************************************)
(* Answers to the five CPU probes of get_cpu_utilization.                  *)
(***************************************************************************)
\* Systems/1: pu is Oem.Hpe.ProcessorUtilization, su is
\* Oem.Hpe.SystemUsage.CPUUtil
Cpu1Resps ==
    {[kind |-> kd, pu |-> Absent, su |-> Absent] : kd \in {"exc", "nodata"}}
    \cup {[kind |-> "data", pu |-> a, su |-> b] :
        a \in FieldVals, b \in FieldVals}

\* Systems/1/Metrics: ps is ProcessorSummary.CPUUtilization, dc is
\* CPUUtilization
Cpu2Resps ==
    {[kind |-> kd, ps |-> Absent, dc |-> Absent] : kd \in {"exc", "nodata"}}
    \cup {[kind |-> "data", ps |-> a, dc |-> b] :
        a \in FieldVals, b \in FieldVals}

\* Systems/1/ProcessorSummary/ProcessorMetrics: tc is TotalCorePercent, cp
\* is CPUUtilizationPercent
Cpu3Resps ==
    {[kind |-> kd, tc |-> Absent, cp |-> Absent] : kd \in {"exc", "nodata"}}
    \cup {[kind |-> "data", tc |-> a, cp |-> b] :
        a \in FieldVals, b \in FieldVals}

\* one member of Systems/1/Processors: "noid" has no @odata.id (no request),
\* "exc" / "nodata" the detail request fails or has no Oem block, "data" has
\* Oem.Hpe with cu CurrentUtilization, pu ProcessorUtilization, up
\* UtilizationPercent
Cpu4Members ==
    {[kind |-> kd, cu |-> Absent, pu |-> Absent, up |-> Absent] :
        kd \in {"noid", "exc", "nodata"}}
    \cup {[kind |-> "data", cu |-> a, pu |-> Absent, up |-> Absent] :
        a \in FieldVals \cup {Str}}
    \cup {[kind |-> "data", cu |-> a, pu |-> Num(5), up |-> Absent] :
        a \in {Absent, NoneV}}
    \cup {[kind |-> "data", cu |-> Absent, pu |-> Absent, up |-> Num(0)]}

Cpu4Resps ==
    {[kind |-> kd, members |-> <<>>] : kd \in {"exc", "nodata"}}
    \cup {[kind |-> "data", members |-> l] :
        l \in SeqsUpTo(Cpu4Members, MaxMembers)}

\* one member of Systems/1/Oem/Hpe/Processors: pu ProcessorUtilization, ut
\* Utilization
Cpu5Members ==
    {[pu |-> a, ut |-> Absent] : a \in FieldVals \cup {Str}}
    \cup {[pu |-> a, ut |-> Num(5)] : a \in {Absent, NoneV}}

\* avg is AverageProcessorUtilization
Cpu5Resps ==
    {[kind |-> kd, avg |-> Absent, members |-> <<>>] :
        kd \in {"exc", "nodata"}}
    \cup {[kind |-> "data", avg |-> a, members |-> l] :
        a \in FieldVals, l \in SeqsUpTo(Cpu5Members, MaxMembers)}

\* Method 1: `if "ProcessorUtilization" in hpe_data: ... elif "SystemUsage"
\* in hpe_data ...`
ExtractCpu1(r) ==
    IF r.kind # "data" THEN NoneV
    ELSE IF Has(r.pu) THEN Get(r.pu)
    ELSE IF Has(r.su) THEN Get(r.su)
    ELSE NoneV

\* Method 2
ExtractCpu2(r) ==
    IF r.kind # "data" THEN NoneV
    ELSE IF Has(r.ps) THEN Get(r.ps)
    ELSE IF Has(r.dc) THEN Get(r.dc)
    ELSE NoneV

\* Method 3
ExtractCpu3(r) ==
    IF r.kind # "data" THEN NoneV
    ELSE IF Has(r.tc) THEN Get(r.tc)
    ELSE IF Has(r.cp) THEN Get(r.cp)
    ELSE NoneV

\* `util is not None and isinstance(util, (int, float))`
IsNumeric(u) == u.k = "num"

\* Method 4, one processor: the util of the first key present
MemberUtil4(mb) ==
    IF mb.kind # "data" THEN NoneV
    ELSE IF Has(mb.cu) THEN mb.cu
    ELSE IF Has(mb.pu) THEN mb.pu
    ELSE IF Has(mb.up) THEN mb.up
    ELSE NoneV

\* Method 5, one member
MemberUtil5(mb) ==
    IF Has(mb.pu) THEN mb.pu
    ELSE IF Has(mb.ut) THEN mb.ut
    ELSE NoneV

\* cpu_loads: the numeric utils, in member order
RECURSIVE Loads(_)
Loads(utils) ==
    IF utils = <<>> THEN <<>>
    ELSE IF IsNumeric(Head(utils)) THEN <<Head(utils).v>> \o Loads(Tail(utils))
    ELSE Loads(Tail(utils))

RECURSIVE SumSeq(_)
SumSeq(l) == IF l = <<>> THEN 0 ELSE Head(l) + SumSeq(Tail(l))

\* a mean that takes an empty list for a load of zero
MeanOrNone_ZeroWhenEmpty(loads) ==
    IF loads = <<>> THEN Num(0) ELSE Mean(SumSeq(loads), Len(loads))

\* `if cpu_loads: cpu_load = np.mean(cpu_loads)`
MeanOrNone(loads) ==
    IF loads = <<>> THEN NoneV ELSE Mean(SumSeq(loads), Len(loads))

ExtractCpu4(r) ==
    IF r.kind # "data" THEN NoneV
    ELSE MeanOrNone(Loads([i \in 1 .. Len(r.members) |->
                              MemberUtil4(r.members[i])]))

\* Method 5: needs a non-empty Members list; AverageProcessorUtilization
\* when the key is present, else the mean over the members
ExtractCpu5(r) ==
    IF r.kind # "data" \/ r.members = <<>> THEN NoneV
    ELSE IF Has(r.avg) THEN Get(r.avg)
    ELSE MeanOrNone(Loads([i \in 1 .. Len(r.members) |->
                              MemberUtil5(r.members[i])]))

\* the detail requests Method 4 sends, one per member with an @odata.id
RECURSIVE DetailReqs(_)
DetailReqs(ms) ==
    IF ms = <<>> THEN <<>>
    ELSE (IF Head(ms).kind = "noid" THEN <<>>
          ELSE <<<<"GET", "Systems/1/Processors/member">>>>)
         \o DetailReqs(Tail(ms))

\* common part of the five methods of get_cpu_utilization
CpuStep(m, rq, raised, y, nextPc) ==
    /\ elapsed' = elapsed + latency * Len(rq)
    /\ probeRaised' = (probeRaised \/ raised)
    /\ reqs' = reqs \o rq
    /\ yields' = Append(yields, [m |-> m, y |-> y])
    /\ cpu_load' = y
    /\ pc' = ProbeNext(y, nextPc, "exit")
    /\ ret' = IF pc' = "exit" THEN RetAt(op, watts, y) ELSE ret
    /\ UNCHANGED <<power, op, force, sessv, current_state, warned, resp,
                   pending, exc, startPower, latency, watts, calls>>
    /\ UNCHANGED <<bvars, lvars, cvars, pvars, gvars>>

Cpu1 ==
    /\ pc = "cpu1"
    /\ \E r \in Cpu1Resps :
         CpuStep("cpu1", <<<<"GET", "Systems/1">>>>, r.kind = "exc",
                 ExtractCpu1(r), "cpu2")

Cpu2 ==
    /\ pc = "cpu2"
    /\ \E r \in Cpu2Resps :
         CpuStep("cpu2", <<<<"GET", "Systems/1/Metrics">>>>, r.kind = "exc",
                 ExtractCpu2(r), "cpu3")

Cpu3 ==
    /\ pc = "cpu3"
    /\ \E r \in Cpu3Resps :
         CpuStep("cpu3",
                 <<<<"GET", "Systems/1/ProcessorSummary/ProcessorMetrics">>>>,
                 r.kind = "exc", ExtractCpu3(r), "cpu4")

Cpu4 ==
    /\ pc = "cpu4"
    /\ \E r \in Cpu4Resps :
         CpuStep("cpu4",
                 <<<<"GET", "Systems/1/Processors">>>> \o DetailReqs(r.members),
                 r.kind = "exc" \/ \E i \in 1 .. Len(r.members) :
                                       r.members[i].kind = "exc",
                 ExtractCpu4(r), "cpu5")

Cpu5 ==
    /\ pc = "cpu5"
    /\ \E r \in Cpu5Resps :
         CpuStep("cpu5", <<<<"GET", "Systems/1/Oem/Hpe/Processors">>>>,
                 r.kind = "exc", ExtractCpu5(r), "exit")

Next ==
    \/ Call
    \/ EnterAttempt
    \/ EnterExhausted
    \/ Exit
    \/ CheckState
    \/ SendReset
    \/ Identifier
    \/ Watts1
    \/ Watts2
    \/ Watts3
    \/ Cpu1
    \/ Cpu2
    \/ Cpu3
    \/ Cpu4
    \/ Cpu5


(***************************************************************************)
(* The fan-out of main() and of monitor_power / monitor_full:              *)
(*     with ThreadPoolExecutor(max_workers=workers) as executor:           *)
(*         results = list(executor.map(f, ilo_systems))                    *)
(***************************************************************************)
\* the batch actions of main(), and the two monitoring loops
BatchModes == {"status", "power_watts", "get_cpu", "get_power_policy",
               "set_power_policy", "power_on", "power_off"}
MonitorModes == {"monitor", "monitor_full"}
Modes == BatchModes \cup MonitorModes

\* iterations=None
NoLimit == -1

\* seconds between ticks the monitoring loop is called with, and seconds the
\* work of one tick may take: less than the interval, or more
Intervals == {2}
WorkTimes == {1, 3}

(***************************************************************************)
(* What a target does to the call made for it:                             *)
(*   fine     the session opens and the operation gets what it asks for    *)
(*   nodata   the session opens, the device answers without the data or    *)
(*            rejects the request                                          *)
(*   conn     RedfishSession.__enter__ raises ConnectionError              *)
(*   auth     RedfishSession.__enter__ raises AuthenticationError          *)
(*   bodyexc  an exception is raised inside the with-body: the NameError   *)
(*            of get_power_status, the AttributeError of                   *)
(*            current.get('source', '').startswith in set_power_policy,    *)
(*            a format error of f"{cpu_load:.1f}", an error in the         *)
(*            processing of get_system_status                              *)
(***************************************************************************)
Conds == {"fine", "nodata", "conn", "auth", "bodyexc"}

\* per-target functions none of which guards its session open
EnterGuarded_Never(m) == FALSE

\* main.get_power and main.get_cpu put the with-statement inside try/except;
\* every other per-target function enters the session outside of any try
EnterGuarded(m) == m \in {"power_watts", "get_cpu"}

\* the functions whose with-body is wholly inside a try/except Exception
BodyGuarded(m) == m \in {"status", "power_watts", "get_cpu",
                         "get_power_policy", "monitor_full"}

\* does the call for a target leave by an exception
Propagates(m, cond) ==
    \/ cond \in {"conn", "auth"} /\ ~EnterGuarded(m)
    \/ cond = "bodyexc" /\ ~BodyGuarded(m)

\* the modes whose per-target result is a reading / a dict of readings
ReadingModes == {"power_watts", "get_cpu"}

NoResult == [r |-> Unset, cpu |-> Unset, usage |-> Unset]

\* what the call for a target returns when it returns; w and c are the
\* watts and the CPU load the device reports, u whether its Systems/1 holds
\* SystemUsage (result['system_usage'] of get_system_metrics_detailed stays
\* None without it)
Returned(m, cond, w, c, u) ==
    IF m = "monitor_full"
    THEN IF cond = "fine"
         THEN [r |-> w, cpu |-> c, usage |-> IF u THEN Dict ELSE NoneV]
         ELSE [r |-> NoneV, cpu |-> NoneV, usage |-> NoneV]
    ELSE IF m = "monitor"
    THEN IF cond = "fine" THEN [r |-> w, cpu |-> c, usage |-> Unset]
         ELSE [r |-> NoneV, cpu |-> NoneV, usage |-> Unset]
    ELSE IF m = "power_watts"
    THEN [r |-> (IF cond = "fine" THEN w ELSE NoneV), cpu |-> Unset,
          usage |-> Unset]
    ELSE IF m = "get_cpu"
    THEN [r |-> (IF cond = "fine" THEN c ELSE NoneV), cpu |-> Unset,
          usage |-> Unset]
    ELSE IF m = "get_power_policy"
    THEN [r |-> Dict, cpu |-> Unset, usage |-> Unset]
    ELSE [r |-> Bool(cond = "fine"), cpu |-> Unset, usage |-> Unset]

Readings == {NoneV} \cup {Num(x) : x \in Vals}

\* the (watts, CPU load, SystemUsage present) triples a target reports to a
\* monitoring tick
MonitorReadings == {<<Num(5), Num(5), TRUE>>, <<Num(0), NoneV, FALSE>>}

\* the targets a worker thread is busy with: "running" from the start of the
\* per-target function, "nested" while set_power_policy is inside its call
\* of get_power_policy, "resumed" once that call has returned
Running == {i \in 1 .. ntargets :
              tstate[i] \in {"running", "nested", "resumed"}}

\* the sessions the worker of target i has entered and not left (at most:
\* "running" begins before the login)
OpenSessions(i) ==
    IF tstate[i] = "nested" THEN 2
    ELSE IF tstate[i] \in {"running", "resumed"} THEN 1
    ELSE 0

\* the session part of the state while the fan-out is modelled
SIdle ==
    /\ power = "On" /\ op = "none" /\ force = FALSE /\ pc = "off"
    /\ max_retries = 3 /\ retries = 0 /\ attempts = 0 /\ sleeps = 0
    /\ fails = <<>> /\ entered = "no" /\ client = "None"
    /\ loggedIn = FALSE /\ logins = 0 /\ logouts = 0
    /\ current_state = "unset" /\ warned = FALSE /\ resp = Unset
    /\ reqs = <<>>
    /\ pending = "none" /\ exc = "none" /\ ret = Unset /\ latency = 1
    /\ elapsed = 0 /\ startPower = "On" /\ watts = NoneV
    /\ cpu_load = NoneV /\ yields = <<>> /\ probeRaised = FALSE
    /\ calls = <<>>

\* the fan-out part of the state while one worker is modelled
BIdle ==
    /\ mode = "none" /\ ntargets = 0 /\ workers = 0 /\ iterations = 0
    /\ iteration = 0 /\ bpc = "off" /\ tstate = <<>> /\ tres = <<>>
    /\ ci = 0 /\ collected = <<>> /\ results = <<>> /\ snapshots = <<>>
    /\ outcome = "none"
    /\ interval = 0 /\ work = 0 /\ slept = 0 /\ mainExc = "none"

BInit ==
    /\ mode \in Modes
    /\ ntargets \in 1 .. MaxTargets
    /\ workers \in 1 .. MaxWorkers
    /\ iterations \in (IF mode \in MonitorModes
                       THEN {NoLimit} \cup 0 .. MaxIterations ELSE {0})
    /\ iteration = 0
    /\ bpc = IF mode \in MonitorModes THEN "loop" ELSE "start"
    /\ tstate = [i \in 1 .. ntargets |-> "none"]
    /\ tres = [i \in 1 .. ntargets |-> NoResult]
    /\ ci = 0
    /\ collected = <<>>
    /\ results = <<>>
    /\ snapshots = <<>>
    /\ outcome = "none"
    /\ interval \in (IF mode \in MonitorModes THEN Intervals ELSE {0})
    /\ work = 0
    /\ slept = 0
    /\ mainExc = "none"

\* executor.map(f, ilo_systems): one future per target, all queued at once;
\* results is not bound yet (the list of the tick before is never read again)
SubmitAll ==
    /\ tstate' = [i \in 1 .. ntargets |-> "pending"]
    /\ tres' = [i \in 1 .. ntargets |-> NoResult]
    /\ ci' = 1
    /\ collected' = <<>>
    /\ results' = <<>>

(***************************************************************************)
(* main(): one of the batch actions starts its fan-out.                    *)
(***************************************************************************)
StartBatch ==
    /\ bpc = "start"
    /\ SubmitAll
    /\ bpc' = "collect"
    /\ UNCHANGED <<mode, ntargets, workers, iterations, iteration, snapshots,
                   outcome>>
    /\ UNCHANGED lvars
    /\ UNCHANGED <<svars, cvars, pvars, gvars>>

(***************************************************************************)
(* monitor_power / monitor_full: `while iterations is None or iteration <  *)
(* iterations` is true: iteration += 1 and the tick's fan-out starts.  The *)
(* unbounded loop is followed for MaxIterations ticks.                     *)
(***************************************************************************)
TickStart ==
    /\ bpc = "loop"
    /\ \/ iterations = NoLimit /\ iteration < MaxIterations
       \/ iterations # NoLimit /\ iteration < iterations
    /\ iteration' = iteration + 1
    /\ SubmitAll
    /\ bpc' = "collect"
    /\ UNCHANGED <<mode, ntargets, workers, iterations, snapshots, outcome>>
    /\ work' = 0
    /\ slept' = 0
    /\ UNCHANGED <<interval, mainExc>>
    /\ UNCHANGED <<svars, cvars, pvars, gvars>>

\* the while condition is false: the loop ends and monitor_* returns
LoopEnd ==
    /\ bpc = "loop"
    /\ iterations # NoLimit /\ iteration >= iterations
    /\ bpc' = "done"
    /\ outcome' = "returned"
    /\ UNCHANGED <<mode, ntargets, workers, iterations, iteration, tstate,
                   tres, ci, collected, results, snapshots>>
    /\ UNCHANGED lvars
    /\ UNCHANGED <<svars, cvars, pvars, gvars>>

\* a pool that starts a thread for every queued call
MayStart_Unbounded(i) ==
    /\ tstate[i] = "pending"
    /\ \A j \in 1 .. i - 1 : tstate[j] # "pending"

\* may a worker thread take the queued call of target i: a thread is free
\* (at most max_workers threads exist) and the queue is first in first out
MayStart(i) ==
    /\ tstate[i] = "pending"
    /\ Cardinality(Running) < workers
    /\ \A j \in 1 .. i - 1 : tstate[j] # "pending"

(***************************************************************************)
(* A worker thread takes the next queued call: the per-target function     *)
(* starts (session open).                                                  *)
(***************************************************************************)
StartTask ==
    /\ bpc \in {"collect", "unwind"}
    /\ \E i \in 1 .. ntargets :
         /\ MayStart(i)
         /\ tstate' = [tstate EXCEPT ![i] = "running"]
    /\ UNCHANGED <<mode, ntargets, workers, iterations, iteration, bpc, tres,
                   ci, collected, results, snapshots, outcome>>
    /\ UNCHANGED lvars
    /\ UNCHANGED <<svars, cvars, pvars, gvars>>

(***************************************************************************)
(* The per-target function ends (session released): it returns a value or  *)
(* an exception leaves it and is stored in the future.                     *)
(***************************************************************************)
FinishTask ==
    /\ bpc \in {"collect", "unwind"}
    /\ \E i \in Running, cond \in Conds, w \in Readings, c \in Readings,
          u \in BOOLEAN :
         /\ (cond # "fine" \/ mode \notin MonitorModes \cup {"power_watts"}
               => w = NoneV)
         /\ (cond # "fine" \/ mode \notin MonitorModes \cup {"get_cpu"}
               => c = NoneV)
         /\ IF cond = "fine" /\ mode \in MonitorModes
            THEN <<w, c, u>> \in MonitorReadings
            ELSE u = FALSE
         \* set_power_policy: without a client nothing else is called; with
         \* one, get_power_policy(system) is called before anything else
         /\ tstate[i] # "nested"
         /\ mode = "set_power_policy" =>
              /\ tstate[i] = "running" => cond \in {"conn", "auth", "bodyexc"}
              /\ tstate[i] = "resumed" => cond \notin {"conn", "auth"}
         /\ IF Propagates(mode, cond)
            THEN /\ tstate' = [tstate EXCEPT ![i] = "raised"]
                 /\ UNCHANGED tres
            ELSE /\ tstate' = [tstate EXCEPT ![i] = "returned"]
                 /\ tres' = [tres EXCEPT ![i] = Returned(mode, cond, w, c, u)]
    /\ UNCHANGED <<mode, ntargets, workers, iterations, iteration, bpc, ci,
                   collected, results, snapshots, outcome>>
    /\ UNCHANGED lvars
    /\ UNCHANGED <<svars, cvars, pvars, gvars>>

(***************************************************************************)
(* set_power_policy, inside `with session_manager as client`, calls        *)
(* get_power_policy(system, debug), which builds a RedfishSession of its   *)
(* own for the same system and enters it (first step); the second session  *)
(* is left before get_power_policy returns (second step).  A login of the  *)
(* second session that fails raises inside the body of the first, which is *)
(* the bodyexc case of FinishTask.                                         *)
(***************************************************************************)
PolicyLookup ==
    /\ bpc \in {"collect", "unwind"}
    /\ mode = "set_power_policy"
    /\ \E i \in 1 .. ntargets :
         \/ /\ tstate[i] = "running"
            /\ tstate' = [tstate EXCEPT ![i] = "nested"]
         \/ /\ tstate[i] = "nested"
            /\ tstate' = [tstate EXCEPT ![i] = "resumed"]
    /\ UNCHANGED <<mode, ntargets, workers, iterations, iteration, bpc, tres,
                   ci, collected, results, snapshots, outcome>>
    /\ UNCHANGED lvars
    /\ UNCHANGED <<svars, cvars, pvars, gvars>>

\* a reader that takes whichever call has ended (as_completed)
NextFuture_AsCompleted ==
    IF \E i \in 1 .. ntargets : tstate[i] \in {"returned", "raised"}
    THEN CHOOSE i \in 1 .. ntargets :
           /\ tstate[i] \in {"returned", "raised"}
           /\ \A j \in 1 .. ntargets :
                tstate[j] \in {"returned", "raised"} => j <= i
    ELSE ci

\* the future the result iterator of executor.map waits for: futures are
\* kept in submission order (fs = [self.submit(fn, *args) for args in
\* zip(*iterables)]) and read from the front
NextFuture == ci

(***************************************************************************)
(* list(executor.map(...)) reads the next future, in input order, and      *)
(* drops it (fs.pop()).  A future holding an exception re-raises it in the *)
(* main thread: the iterator cancels the futures still queued and the      *)
(* exception leaves the with-block.                                        *)
(***************************************************************************)
Collect ==
    /\ bpc = "collect"
    /\ ci <= ntargets
    /\ tstate[NextFuture] \in {"returned", "raised"}
    /\ IF tstate[NextFuture] = "returned"
       THEN /\ collected' = Append(collected, tres[NextFuture])
            /\ ci' = ci + 1
            /\ tstate' = [tstate EXCEPT ![NextFuture] = "read"]
            /\ tres' = [tres EXCEPT ![NextFuture] = NoResult]
            /\ UNCHANGED <<bpc, mainExc>>
       ELSE /\ tstate' = [i \in 1 .. ntargets |->
                            IF tstate[i] = "pending" THEN "cancelled"
                            ELSE tstate[i]]
            /\ bpc' = "unwind"
            /\ mainExc' = "Exception"
            /\ UNCHANGED <<collected, ci, tres>>
    /\ UNCHANGED <<mode, ntargets, workers, iterations, iteration, results,
                   snapshots, outcome>>
    /\ UNCHANGED <<interval, work, slept>>
    /\ UNCHANGED <<svars, cvars, pvars, gvars>>

\* an executor that is left without waiting for its threads
WorkersJoined_NoWait == TRUE

\* ThreadPoolExecutor.__exit__: shutdown(wait=True) returns once no worker
\* thread is running a call
WorkersJoined == Running = {}

(***************************************************************************)
(* The exception leaves the with-block once the running calls are over     *)
(* (shutdown(wait=True)) and reaches `except KeyboardInterrupt` or `except *)
(* Exception` of main() or of the monitoring loop, whose try is outside    *)
(* the while: the run is over and results was never bound.                 *)
(***************************************************************************)
Unwind ==
    /\ bpc = "unwind"
    /\ WorkersJoined
    /\ bpc' = "done"
    /\ outcome' = IF mainExc = "KeyboardInterrupt" THEN "interrupted"
                  ELSE "aborted"
    /\ UNCHANGED <<mode, ntargets, workers, iterations, iteration, tstate,
                   tres, ci, collected, results, snapshots>>
    /\ UNCHANGED lvars
    /\ UNCHANGED <<svars, cvars, pvars, gvars>>

(***************************************************************************)
(* KeyboardInterrupt is raised in the main thread.  While it waits for a   *)
(* future inside list(executor.map(...)), the iterator cancels the queued  *)
(* futures and the exception goes to the exit of the with-block; during    *)
(* time.sleep(interval) it goes straight to `except KeyboardInterrupt`.    *)
(***************************************************************************)
Interrupt ==
    /\ \/ /\ bpc = "collect"
          /\ tstate' = [i \in 1 .. ntargets |->
                          IF tstate[i] = "pending" THEN "cancelled"
                          ELSE tstate[i]]
          /\ bpc' = "unwind"
          /\ UNCHANGED outcome
       \/ /\ bpc = "loop" /\ mode \in MonitorModes /\ slept > 0
          /\ bpc' = "done"
          /\ outcome' = "interrupted"
          /\ UNCHANGED tstate
    /\ mainExc' = "KeyboardInterrupt"
    /\ UNCHANGED <<mode, ntargets, workers, iterations, iteration, tres, ci,
                   collected, results, snapshots>>
    /\ UNCHANGED <<interval, work, slept>>
    /\ UNCHANGED <<svars, cvars, pvars, gvars>>

\* an aggregation that counts a failed target as a reading of 0
RECURSIVE ValidReadings_All(_)
ValidReadings_All(l) ==
    IF l = <<>> THEN <<>>
    ELSE <<Head(l).v>> \o ValidReadings_All(Tail(l))

\* [r['watts'] for r in results if r['watts'] is not None]
RECURSIVE ValidReadings(_)
ValidReadings(l) ==
    IF l = <<>> THEN <<>>
    ELSE (IF IsNotNone(Head(l)) THEN <<Head(l).v>> ELSE <<>>)
         \o ValidReadings(Tail(l))

\* monitor_full hands the per-target results to
\* save_full_monitor_data_to_csv; no row of aggregates is written
NoRow ==
    [total_power_watts |-> Absent, avg_power_watts |-> Absent,
     avg_cpu_load |-> Absent, valid_readings |-> 0, total_servers |-> 0]

\* --power-watts / --get-cpu after the fan-out: valid_results is the list of
\* the results that are not None; total, mean and the count printed as
\* "Readings from k out of N servers" are computed from it, or "No valid
\* ... readings obtained." is printed (std, min and max of --get-cpu and
\* the optional CSV row of --power-watts are left out).  The record has the
\* fields of a monitoring snapshot; those without a meaning here are empty.
BatchSummary(res) ==
    LET valid_results == ValidReadings([i \in 1 .. Len(res) |-> res[i].r])
        some == Len(valid_results) > 0
    IN [tick |-> 0,
        valid_readings |-> Len(valid_results),
        total_watts |-> IF some THEN Num(SumSeq(valid_results)) ELSE Absent,
        avg_watts |-> IF some
                      THEN Mean(SumSeq(valid_results), Len(valid_results))
                      ELSE Absent,
        cpu_readings |-> 0,
        avg_cpu |-> Absent,
        total_servers |-> ntargets,
        csv |-> NoRow,
        full_rows |-> <<>>]

(***************************************************************************)
(* main(): every future has been read; results is bound to the list and    *)
(* the batch action prints its summary from it.                            *)
(***************************************************************************)
Report ==
    /\ bpc = "collect"
    /\ ci > ntargets
    /\ mode \in BatchModes
    /\ results' = collected
    /\ snapshots' = IF mode \in ReadingModes
                    THEN <<BatchSummary(collected)>> ELSE snapshots
    /\ bpc' = "done"
    /\ outcome' = "completed"
    /\ UNCHANGED <<mode, ntargets, workers, iterations, iteration, tstate,
                   tres, ci, collected>>
    /\ UNCHANGED lvars
    /\ UNCHANGED <<svars, cvars, pvars, gvars>>

\* the exit status of the process for every way main() ends: main has no
\* sys.exit and no return value, its `except KeyboardInterrupt` and `except
\* Exception` print and fall through, and the script ends with a bare
\* main()
ExitStatus(o) ==
    CASE o = "completed"   -> 0
      [] o = "returned"    -> 0
      [] o = "aborted"     -> 0
      [] o = "interrupted" -> 0

\* a cell of the CSV file: a number printed with two decimals (kept as the
\* count of hundredths, rounded), or the word Unknown
Text(h) == [k |-> "text", v |-> h, n |-> 0]
UnknownText == [k |-> "Unknown", v |-> 0, n |-> 0]

\* f"{x:.2f}" of a number or of a mean sum / count
Fmt2(x) == Text((200 * x.v + x.n) \div (2 * x.n))

\* the data row save_power_data_to_csv builds from its arguments
CsvRow(total_watts, avg_watts, avg_cpu_load, valid_readings, total_servers) ==
    [total_power_watts |-> Fmt2(total_watts),
     avg_power_watts |-> Fmt2(avg_watts),
     avg_cpu_load |-> IF IsNotNone(avg_cpu_load) THEN Fmt2(avg_cpu_load)
                      ELSE UnknownText,
     valid_readings |-> valid_readings,
     total_servers |-> total_servers]

\* save_full_monitor_data_to_csv: `if s and s.get('system_usage')` finds a
\* valid_system
HasUsage(res) == \E i \in 1 .. Len(res) : res[i].usage = Dict

\* the rows save_full_monitor_data_to_csv writes for the results of a tick:
\* none (`return None`) without a valid_system, else one per result (of a
\* row, the cell ip)
FullRows(res) ==
    IF ~HasUsage(res) THEN <<>>
    ELSE [i \in 1 .. Len(res) |-> [ip |-> i]]

\* the aggregates of a tick, as printed in the summary, the row handed to
\* save_power_data_to_csv and the rows save_full_monitor_data_to_csv writes
Snapshot(res) ==
    LET ws == ValidReadings([i \in 1 .. Len(res) |-> res[i].r])
        cs == ValidReadings([i \in 1 .. Len(res) |-> res[i].cpu])
        valid_power_readings == Len(ws)
        valid_cpu_readings == Len(cs)
        total_watts == IF valid_power_readings > 0 THEN Num(SumSeq(ws))
                       ELSE Num(0)
        avg_watts == IF valid_power_readings > 0
                     THEN Mean(SumSeq(ws), Len(ws)) ELSE Num(0)
        avg_cpu == IF valid_cpu_readings > 0
                   THEN Mean(SumSeq(cs), Len(cs)) ELSE NoneV
    IN [tick |-> iteration,
        valid_readings |-> valid_power_readings,
        total_watts |-> total_watts,
        avg_watts |-> avg_watts,
        cpu_readings |-> valid_cpu_readings,
        avg_cpu |-> avg_cpu,
        total_servers |-> ntargets,
        csv |-> IF mode = "monitor"
                THEN CsvRow(total_watts, avg_watts, avg_cpu,
                            valid_power_readings, ntargets)
                ELSE NoRow,
        full_rows |-> IF mode = "monitor_full" THEN FullRows(res) ELSE <<>>]

(***************************************************************************)
(* monitor_power / monitor_full after the fan-out of a tick: results is    *)
(* bound, the aggregates are computed and saved to the CSV sink once, then *)
(* `break` when the iteration limit is reached, else time.sleep(interval)  *)
(* and the next turn of the loop.                                          *)
(***************************************************************************)
Summarize ==
    /\ bpc = "collect"
    /\ ci > ntargets
    /\ mode \in MonitorModes
    /\ results' = collected
    /\ snapshots' = Append(snapshots, Snapshot(collected))
    /\ work' \in WorkTimes
    /\ IF iterations # NoLimit /\ iteration >= iterations
       THEN /\ bpc' = "done"
            /\ outcome' = "returned"
            /\ slept' = 0
       ELSE \* time.sleep(interval_minutes * 60)
            /\ bpc' = "loop"
            /\ slept' = interval
            /\ UNCHANGED outcome
    /\ UNCHANGED <<mode, ntargets, workers, iterations, iteration, tstate,
                   tres, ci, collected>>
    /\ UNCHANGED <<interval, mainExc>>
    /\ UNCHANGED <<svars, cvars, pvars, gvars>>

NextBatch ==
    \/ StartBatch
    \/ TickStart
    \/ LoopEnd
    \/ StartTask
    \/ PolicyLookup
    \/ FinishTask
    \/ Collect
    \/ Unwind
    \/ Interrupt
    \/ Report
    \/ Summarize

(***************************************************************************)
(* save_power_data_to_csv(csv_path, ...) called by more than one process   *)
(* on the same path.  A save is two steps on the file system:              *)
(*     file_exists = Path(csv_path).exists()                               *)
(*     df.to_csv(csv_path, mode='a', header=False)   if file_exists        *)
(*     df.to_csv(csv_path)                           otherwise             *)
(* and nothing keeps another writer from running between the two.         *)
(***************************************************************************)
Writers == 1 .. MaxWriters

\* the header line, and the data row of save k of writer w
Header == [w |-> 0, k |-> 0]
Row(w, k) == [w |-> w, k |-> k]

\* the file part of the state while no save is modelled
CIdle ==
    /\ csvExists = FALSE /\ csvFile = <<>> /\ wpc = <<>>
    /\ file_exists = <<>> /\ wsaves = <<>> /\ saved = <<>>

\* the path does not exist and no writer has started
CInit ==
    /\ csvExists = FALSE
    /\ csvFile = <<>>
    /\ wpc = [w \in Writers |-> "idle"]
    /\ file_exists = [w \in Writers |-> FALSE]
    /\ wsaves = [w \in Writers |-> 0]
    /\ saved = <<>>

\* file_exists = Path(csv_path).exists()
SaveCheck ==
    /\ \E w \in Writers :
         /\ wpc[w] = "idle"
         /\ wsaves[w] < MaxSaves
         /\ file_exists' = [file_exists EXCEPT ![w] = csvExists]
         /\ wpc' = [wpc EXCEPT ![w] = "checked"]
    /\ UNCHANGED <<csvExists, csvFile, wsaves, saved>>
    /\ UNCHANGED <<svars, bvars, lvars, pvars, gvars>>

\* what to_csv leaves in the file: mode='a' without header adds the row at
\* the end; the default mode 'w' replaces the file by the header and the row
WriteCsv(old, exists, row) ==
    IF exists THEN Append(old, row) ELSE <<Header, row>>

\* df.to_csv(...); return csv_path
SaveWrite ==
    /\ \E w \in Writers :
         /\ wpc[w] = "checked"
         /\ csvFile' = WriteCsv(csvFile, file_exists[w],
                                Row(w, wsaves[w] + 1))
         /\ saved' = Append(saved, Row(w, wsaves[w] + 1))
         /\ wsaves' = [wsaves EXCEPT ![w] = wsaves[w] + 1]
         /\ wpc' = [wpc EXCEPT ![w] = "idle"]
    /\ csvExists' = TRUE
    /\ UNCHANGED file_exists
    /\ UNCHANGED <<svars, bvars, lvars, pvars, gvars>>

NextCsv ==
    \/ SaveCheck
    \/ SaveWrite

(***************************************************************************)
(* Functions of one input: Method 4 and Method 5 of get_cpu_utilization    *)
(* applied to one answer of the device, and the reader of the systems file *)
(* applied to one DataFrame.                                               *)
(***************************************************************************)
\* the state of this part while no function is applied
PIdle == fn = "none" /\ arg = <<>> /\ out = Unset /\ goes = "none"

(***************************************************************************)
(* read_ilo_systems_from_csv on the DataFrame pd.read_csv returned         *)
(* (dtype=str: a cell is NaN or a string) and on col_mapping; arg.rows are *)
(* the rows the loop has read so far.                                      *)
(***************************************************************************)
NaN == [na |-> TRUE, text |-> ""]
Txt(t) == [na |-> FALSE, text |-> t]

required_fields == {"ip", "username", "password"}
optional_fields == {"cluster"}

\* the cells of the columns: a value with blanks around it, a plain value,
\* a placeholder word pd.read_csv leaves as text, a missing cell, a blank
\* one
Cells ==
    [ip |-> {Txt(" a "), Txt("b")},
     username |-> {Txt("NONE"), Txt("u")},
     password |-> {NaN, Txt(" "), Txt("p")},
     cluster |-> {NaN, Txt("c")}]

\* the rows of a file in which the columns cols were found; a column that
\* was not found holds nothing
RowsOf(cols) ==
    {r \in [ip : Cells.ip, username : Cells.username,
            password : Cells.password, cluster : Cells.cluster] :
       \A f \in (required_fields \cup optional_fields) \ cols : r[f] = NaN}

\* col_mapping's keys: every field, the required ones, or no password
\* column
Mappings == {required_fields \cup optional_fields, required_fields,
             {"ip", "username"}}

\* str.strip() and str.lower() on the texts above
Strip(t) == CASE t = " " -> "" [] t = " a " -> "a" [] OTHER -> t
Lower(t) == CASE t = "NONE" -> "none" [] OTHER -> t

\* `if pd.isna(value) or value is None: value = "" else: value =
\* str(value).strip()`
CellValue(c) == IF c.na THEN "" ELSE Strip(c.text)

\* a test that compares the value as written
Usable_AsWritten(v) == v # "" /\ v \notin {"nan", "none", "null", ""}

\* `if value and value.lower() not in ['nan', 'none', 'null', '']`
Usable(v) == v # "" /\ Lower(v) \notin {"nan", "none", "null", ""}

\* the dictionary built for one row: the mapped fields with a usable value
SystemOf(cols, r) ==
    [f \in {g \in cols : Usable(CellValue(r[g]))} |-> CellValue(r[f])]

\* `if all(field in system for field in required_fields):
\* ilo_systems.append(system)`
Appended(cols, r) ==
    LET system == SystemOf(cols, r) IN
    IF required_fields \subseteq DOMAIN system THEN <<system>> ELSE <<>>

PInit ==
    /\ \/ fn = "cpu1" /\ arg \in Cpu1Resps
       \/ fn = "power2" /\ arg \in Power2Resps
       \/ fn = "cpu4" /\ arg \in Cpu4Resps
       \/ fn = "cpu5" /\ arg \in Cpu5Resps
       \/ fn = "aggregate" /\ arg \in SeqsUpTo(Readings, MaxTargets)
       \/ /\ fn = "get_system_power_watts"
          /\ arg \in {[max_retries |-> m, retry_count |-> 0, watts |-> NoneV,
                       reqs |-> 0, rounds |-> <<>>] :
                        m \in 0 .. MaxRetriesBound}
       \/ /\ fn = "read_csv"
          /\ arg \in {[cols |-> c, rows |-> <<>>] : c \in Mappings}
    /\ out = Unset
    /\ goes = "call"

\* one probe of the discovery on the answer arg: Method 1 of
\* get_cpu_utilization (System OEM), Method 2 of get_power_watts
\* (PowerSubsystem), Method 4 (Individual Processors OEM) and Method 5 (HPE
\* Processor Collection) of get_cpu_utilization; goes is where the function
\* continues
ApplyProbe ==
    /\ fn \in {"cpu1", "power2", "cpu4", "cpu5"} /\ goes = "call"
    /\ out' = CASE fn = "cpu1"   -> ExtractCpu1(arg)
                [] fn = "power2" -> ExtractPower2(arg)
                [] fn = "cpu4"   -> ExtractCpu4(arg)
                [] fn = "cpu5"   -> ExtractCpu5(arg)
    /\ goes' = CASE fn = "cpu1"   -> ProbeNext(out', "cpu2", "exit")
                 [] fn = "power2" -> ProbeNext(out', "watts3", "exit")
                 [] fn = "cpu4"   -> ProbeNext(out', "cpu5", "exit")
                 [] fn = "cpu5"   -> ProbeNext(out', "return None", "exit")
    /\ UNCHANGED <<fn, arg>>
    /\ UNCHANGED <<svars, bvars, lvars, cvars, gvars>>

\* monitor_power on the watts of the results of a tick (arg[i] is
\* results[i]['watts']): watts_values keeps those that are not None;
\* valid_power_readings, total_watts and avg_watts are computed from it
ApplyAggregate ==
    /\ fn = "aggregate" /\ goes = "call"
    /\ out' = LET watts_values == ValidReadings(arg)
                  valid_power_readings == Len(watts_values)
              IN [valid_readings |-> valid_power_readings,
                  total_watts |-> IF valid_power_readings > 0
                                  THEN Num(SumSeq(watts_values)) ELSE Num(0),
                  avg_watts |-> IF valid_power_readings > 0
                                THEN Mean(SumSeq(watts_values),
                                          valid_power_readings)
                                ELSE Num(0)]
    /\ goes' = "exit"
    /\ UNCHANGED <<fn, arg>>
    /\ UNCHANGED <<svars, bvars, lvars, cvars, gvars>>

\* a loop that makes one round more than the retries allow
KeepsTrying_OneMore(w, rc, mr) == w = NoneV /\ rc <= mr + 1

\* 1.0.0: `while watts is None and retry_count <= max_retries`
KeepsTrying(w, rc, mr) == w = NoneV /\ rc <= mr

(***************************************************************************)
(* get_system_power_watts(system, max_retries, retry_delay) of version     *)
(* 1.0.0.  First step: the identification GET of Systems/1, whose          *)
(* exceptions are swallowed.  Then one step per turn of the while loop:    *)
(* time.sleep(retry_delay) when retry_count > 0, GET Chassis/1/Power       *)
(* (answer a1: the request raises, a status other than 200, or a JSON      *)
(* object whose PowerControl[0].PowerConsumedWatts is a1.v) and, when      *)
(* watts is still None, GET PowerSubsystem/PowerMetrics (answer a2, a2.v   *)
(* is PowerWatts); an exception ends the turn; retry_count += 1.  Last     *)
(* step: the loop condition is false and watts is returned.  arg.rounds    *)
(* records the turns: the seconds slept, the requests sent, the watts at   *)
(* the end.                                                                *)
(***************************************************************************)
get_system_power_watts ==
    /\ fn = "get_system_power_watts"
    /\ \/ /\ goes = "call"
          /\ arg' = [arg EXCEPT !.reqs = @ + 1]
          /\ goes' = "loop"
          /\ UNCHANGED out
       \/ /\ goes = "loop"
          /\ KeepsTrying(arg.watts, arg.retry_count, arg.max_retries)
          /\ \E a1, a2 \in {[kind |-> "exc", v |-> Absent],
                             [kind |-> "non200", v |-> Absent]}
                            \cup {[kind |-> "data", v |-> x] :
                                    x \in FieldVals} :
               LET w1 == IF a1.kind = "data" THEN Get(a1.v) ELSE NoneV
                   second == a1.kind # "exc" /\ w1 = NoneV
                   w2 == IF a2.kind = "data" THEN Get(a2.v) ELSE NoneV
                   n == IF second THEN 2 ELSE 1
                   w == IF second THEN w2 ELSE w1
               IN arg' = [arg EXCEPT
                            !.watts = w,
                            !.retry_count = @ + 1,
                            !.reqs = @ + n,
                            !.rounds = Append(@,
                               [slept |-> IF arg.retry_count > 0
                                          THEN retry_delay ELSE 0,
                                reqs |-> n, watts |-> w])]
          /\ UNCHANGED <<goes, out>>
       \/ /\ goes = "loop"
          /\ ~KeepsTrying(arg.watts, arg.retry_count, arg.max_retries)
          /\ out' = arg.watts
          /\ goes' = "exit"
          /\ UNCHANGED arg
    /\ UNCHANGED fn
    /\ UNCHANGED <<svars, bvars, lvars, cvars, gvars>>

\* read_ilo_systems_from_csv after the columns were mapped: `if not
\* all(field in col_mapping for field in required_fields): return []`, else
\* ilo_systems = []
CheckColumns ==
    /\ fn = "read_csv" /\ goes = "call"
    /\ out' = <<>>
    /\ goes' = IF required_fields \subseteq arg.cols THEN "rows" ELSE "exit"
    /\ UNCHANGED <<fn, arg>>
    /\ UNCHANGED <<svars, bvars, lvars, cvars, gvars>>

\* one turn of `for _, row in df.iterrows()`: the next row of the file is r
ReadRow ==
    /\ fn = "read_csv" /\ goes = "rows"
    /\ Len(arg.rows) < MaxRows
    /\ \E r \in RowsOf(arg.cols) :
         /\ arg' = [arg EXCEPT !.rows = Append(@, r)]
         /\ out' = out \o Appended(arg.cols, r)
    /\ UNCHANGED <<fn, goes>>
    /\ UNCHANGED <<svars, bvars, lvars, cvars, gvars>>

\* the rows have ended: `return ilo_systems`, or `return []` when it is
\* empty
ReturnSystems ==
    /\ fn = "read_csv" /\ goes = "rows"
    /\ goes' = "exit"
    /\ UNCHANGED <<fn, arg, out>>
    /\ UNCHANGED <<svars, bvars, lvars, cvars, gvars>>

NextPure ==
    \/ ApplyProbe
    \/ ApplyAggregate
    \/ get_system_power_watts
    \/ CheckColumns
    \/ ReadRow
    \/ ReturnSystems

(***************************************************************************)
(* Version 1.0.0 (ilo_power_1.0.0.py): monitor_power_periodically maps     *)
(* get_system_power_and_cpu over ilo_systems in every tick and sums what   *)
(* the calls return.  The call writes its readings into the dictionary it  *)
(* is given and returns that dictionary.                                   *)
(***************************************************************************)
LegacyMode == "monitor_power_periodically"

\* the dictionary read_ilo_systems_from_csv makes for target i; a key the
\* dictionary does not hold is Absent
Descriptor(i) ==
    [ip |-> i, username |-> Str, password |-> Str,
     cluster |-> IF i = 1 THEN Str ELSE Absent,
     watts |-> Absent, cpu_load |-> Absent]

\* what a target answers in one tick: Oem.Hpe.ProcessorUtilization of
\* Systems/1 (Absent when the key is missing or the request fails), what
\* the four fallback CPU probes give after their retries when they are run,
\* and what the power probes give after theirs.  A healthy target, one
\* without the Oem key whose Metrics endpoint works, one that answers
\* nothing, one whose Oem key holds null.
LegacyAnswers ==
    {[oem |-> Num(5), fb |-> NoneV, w |-> Num(5)],
     [oem |-> Absent, fb |-> Num(0), w |-> NoneV],
     [oem |-> Absent, fb |-> NoneV, w |-> NoneV],
     [oem |-> NoneV, fb |-> Num(0), w |-> Num(5)]}

\* nothing was asked of the target in this tick
NoAnswer == [oem |-> Unset, probed |-> Unset, watts |-> Unset]

\* `if hpe_data and "ProcessorUtilization" in hpe_data: system["cpu_load"]
\* = cpu_load`
AfterOem(system, oem) ==
    IF Has(oem) THEN [system EXCEPT !.cpu_load = oem] ELSE system

\* `if "cpu_load" not in system or system["cpu_load"] is None`: the
\* fallback CPU probes are run
ProbesRun(system, oem) == AfterOem(system, oem).cpu_load \in {Absent, NoneV}

\* get_system_power_and_cpu(system): the dictionary it returns, which is
\* the dictionary it was given
get_system_power_and_cpu(system, oem, fb, w) ==
    LET s1 == AfterOem(system, oem)
        s2 == IF ProbesRun(system, oem) THEN [s1 EXCEPT !.cpu_load = fb]
              ELSE s1
    IN [s2 EXCEPT !.watts = w]

LIdle == ilo_systems = <<>> /\ got = <<>>

LInit ==
    /\ mode = LegacyMode
    /\ ntargets \in 1 .. MaxTargets
    /\ workers = MaxWorkers
    /\ iterations \in 1 .. MaxIterations
    /\ iteration = 0
    /\ bpc = "loop"
    /\ tstate = [i \in 1 .. ntargets |-> "none"]
    /\ tres = <<>>
    /\ ci = 0
    /\ collected = <<>>
    /\ results = <<>>
    /\ snapshots = <<>>
    /\ outcome = "none"
    /\ interval \in Intervals
    /\ work = 0
    /\ slept = 0
    /\ mainExc = "none"
    /\ ilo_systems = [i \in 1 .. ntargets |-> Descriptor(i)]
    /\ got = [i \in 1 .. ntargets |-> NoAnswer]

\* `while iterations is None or iteration < iterations`: iteration += 1 and
\* executor.map queues one call per target
LegacyTickStart ==
    /\ bpc = "loop"
    /\ iteration < iterations
    /\ iteration' = iteration + 1
    /\ tstate' = [i \in 1 .. ntargets |-> "pending"]
    /\ got' = [i \in 1 .. ntargets |-> NoAnswer]
    /\ bpc' = "collect"
    /\ slept' = 0
    /\ UNCHANGED <<mode, ntargets, workers, iterations, tres, ci, collected,
                   results, snapshots, outcome, interval, work, mainExc>>
    /\ UNCHANGED ilo_systems
    /\ UNCHANGED <<svars, cvars, pvars>>

\* a worker runs get_system_power_and_cpu on the dictionary of target i
LegacyPoll ==
    /\ bpc = "collect"
    /\ \E i \in 1 .. ntargets, a \in LegacyAnswers :
         LET run == ProbesRun(ilo_systems[i], a.oem) IN
         /\ tstate[i] = "pending"
         /\ ilo_systems' =
              [ilo_systems EXCEPT
                 ![i] = get_system_power_and_cpu(ilo_systems[i], a.oem,
                                                 a.fb, a.w)]
         /\ got' = [got EXCEPT
                      ![i] = [oem |-> a.oem,
                              probed |-> IF run THEN a.fb ELSE Unset,
                              watts |-> a.w]]
         /\ tstate' = [tstate EXCEPT ![i] = "returned"]
    /\ UNCHANGED <<mode, ntargets, workers, iterations, iteration, bpc, tres,
                   ci, collected, results, snapshots, outcome>>
    /\ UNCHANGED lvars
    /\ UNCHANGED <<svars, cvars, pvars>>

\* the totals and averages monitor_power_periodically computes from the
\* dictionaries the calls returned
LegacySnapshot(res) ==
    LET ws == ValidReadings([i \in 1 .. Len(res) |-> Get(res[i].watts)])
        cs == ValidReadings([i \in 1 .. Len(res) |-> Get(res[i].cpu_load)])
    IN [tick |-> iteration,
        total_watts |-> Num(SumSeq(ws)),
        valid_power_readings |-> Len(ws),
        avg_watts |-> IF Len(ws) > 0 THEN Mean(SumSeq(ws), Len(ws))
                      ELSE Num(0),
        valid_cpu_readings |-> Len(cs),
        avg_cpu |-> IF Len(cs) > 0 THEN Mean(SumSeq(cs), Len(cs))
                    ELSE NoneV]

\* results = list(executor.map(...)) is complete: the tick is summed and
\* saved, then `break` at the iteration limit or time.sleep(interval)
LegacySummarize ==
    /\ bpc = "collect"
    /\ \A i \in 1 .. ntargets : tstate[i] = "returned"
    /\ results' = ilo_systems
    /\ snapshots' = Append(snapshots, LegacySnapshot(ilo_systems))
    /\ IF iteration >= iterations
       THEN /\ bpc' = "done"
            /\ outcome' = "returned"
            /\ slept' = 0
       ELSE /\ bpc' = "loop"
            /\ slept' = interval
            /\ UNCHANGED outcome
    /\ UNCHANGED <<mode, ntargets, workers, iterations, iteration, tstate,
                   tres, ci, collected>>
    /\ UNCHANGED <<interval, work, mainExc>>
    /\ UNCHANGED gvars
    /\ UNCHANGED <<svars, cvars, pvars>>

NextLegacy ==
    \/ LegacyTickStart
    \/ LegacyPoll
    \/ LegacySummarize

Init == SInit /\ BIdle /\ CIdle /\ PIdle /\ LIdle
Spec == Init /\ [][Next]_vars

InitBatch == SIdle /\ BInit /\ CIdle /\ PIdle /\ LIdle
SpecBatch == InitBatch /\ [][NextBatch]_vars

InitCsv == SIdle /\ BIdle /\ CInit /\ PIdle /\ LIdle
SpecCsv == InitCsv /\ [][NextCsv]_vars

InitPure == SIdle /\ BIdle /\ CIdle /\ PInit /\ LIdle
SpecPure == InitPure /\ [][NextPure]_vars

InitLegacy == SIdle /\ LInit /\ CIdle /\ PIdle
SpecLegacy == InitLegacy /\ [][NextLegacy]_vars

(***************************************************************************)
(* Properties of one worker (specification Spec)                           *)
(***************************************************************************)
\* pairs of consecutive finished calls of the same power operation that
\* both started with the device in the requested state
InStatePairs ==
    {i \in 1 .. Len(calls) - 1 :
        /\ calls[i].op = calls[i + 1].op
        /\ calls[i].force = calls[i + 1].force
        /\ calls[i].startPower = Requested(calls[i].op)
        /\ calls[i + 1].startPower = Requested(calls[i + 1].op)}

\* a call that read the requested state sent no reset and returned True
NoResetWhenInState ==
    \A i \in 1 .. Len(calls) :
        calls[i].read = Requested(calls[i].op)
            => calls[i].posts = 0 /\ calls[i].ret = Bool(TRUE)

\* C2 (as stated): power_on_system / power_off_system send no reset request
\* when the state read equals the requested state and return True, and two
\* calls in a row on a device that is in the requested state send at most
\* one reset request between them.
C2_IdempotentAsStated ==
    /\ NoResetWhenInState
    /\ \A i \in InStatePairs : calls[i].posts + calls[i + 1].posts <= 1

\* C2 (amended): power_on_system / power_off_system send no reset request
\* when the state read equals the requested state and return True; two
\* calls in a row on a device that is in the requested state, each of which
\* reads that state, send no reset request at all.
C2_Idempotent ==
    /\ NoResetWhenInState
    /\ \A i \in InStatePairs :
          (calls[i].read = calls[i].startPower
             /\ calls[i + 1].read = calls[i + 1].startPower)
          => calls[i].posts + calls[i + 1].posts = 0

\* C2 witness: power_off called twice on a device that is off, both calls
\* read Off
C2_Witness ==
    /\ Len(calls) = 2
    /\ calls[1].op = "power_off" /\ calls[2].op = "power_off"
    /\ calls[1].read = "Off" /\ calls[2].read = "Off"
    /\ calls[2].posts = 0

ConnLevel(f) == f.session = "na" \/ (f.session = "conn" /\ f.basic = "conn")

\* C4 (as stated): __enter__ makes at most max_retries+1 attempts; when
\* every attempt failed with a connection-level error it raises
\* ConnectionError after exactly max_retries+1 attempts with one sleep
\* between consecutive attempts; it returns at the first attempt that
\* succeeds.
C4_RetryBudget ==
    /\ attempts <= max_retries + 1
    /\ (entered = "client" => attempts = Len(fails) + 1)
    /\ (/\ entered \notin {"no", "client"}
        /\ \A i \in 1 .. Len(fails) : ConnLevel(fails[i]))
       => /\ entered = "ConnectionError"
          /\ attempts = max_retries + 1
          /\ sleeps = (IF attempts = 0 THEN 0 ELSE attempts - 1)

\* C5: when both logins of an attempt fail, __enter__ raises
\* AuthenticationError at once: that attempt is the last, it is followed by
\* no sleep and does not increment retries.
C5_AuthFailureNotRetried ==
    (fails # <<>> /\ fails[Len(fails)].session # "na")
    => /\ entered = "AuthenticationError"
       /\ pc = "done"
       /\ attempts = Len(fails)
       /\ retries = Len(fails) - 1
       /\ sleeps = Len(fails) - 1

\* C5 witness: both logins fail on an attempt while a retry is still
\* available
C5_Witness ==
    /\ entered = "AuthenticationError"
    /\ attempts = 1
    /\ retries < max_retries

\* the probes of get_power_watts / get_cpu_utilization run so far
IsWatts(e) == e.m \in {"watts1", "watts2", "watts3"}
IsCpu(e) == e.m \in {"cpu1", "cpu2", "cpu3", "cpu4", "cpu5"}
WattsYields == SelectSeq(yields, IsWatts)
CpuYields == SelectSeq(yields, IsCpu)
WattsOrder == <<"watts1", "watts2", "watts3">>
WattsPaths == <<"Chassis/1/Power", "Chassis/1/PowerSubsystem/PowerMetrics",
                "Systems/1">>
CpuOrder == <<"cpu1", "cpu2", "cpu3", "cpu4", "cpu5">>
IsGet(r) == r[1] = "GET"
Gets == SelectSeq(reqs, IsGet)

\* C6: get_power_watts runs its probes in the order Chassis/1/Power,
\* PowerSubsystem/PowerMetrics, Systems/1 OEM; it returns the value of the
\* first probe that yields one and sends no request for a later probe.
C6_FirstProbeWins ==
    LET wy == WattsYields IN
    /\ \A i \in 1 .. Len(wy) : wy[i].m = WattsOrder[i]
    /\ \A i \in 1 .. Len(wy) - 1 : wy[i].y = NoneV
    /\ (op = "get_power" /\ pc = "done" /\ entered = "client")
       => /\ wy # <<>>
          /\ ret = wy[Len(wy)].y
          /\ (ret = NoneV => Len(wy) = 3)
          /\ Gets = <<<<"GET", "Systems/1">>>>
                    \o [i \in 1 .. Len(wy) |-> <<"GET", WattsPaths[i]>>]

\* C6 witness: the second probe yields 5 W after the first yielded nothing,
\* and the call is over
C6_Witness ==
    /\ op = "get_power" /\ pc = "done"
    /\ Len(WattsYields) = 2
    /\ ret = Num(5)

\* C7: get_cpu_utilization never raises; it returns the value of one of its
\* five methods, tried in order, or None, and None only after all five
\* methods have run without a value, also when a request of a method raised.
C7_CpuDiscoveryTotal ==
    LET cy == CpuYields IN
    /\ \A i \in 1 .. Len(cy) : cy[i].m = CpuOrder[i]
    /\ \A i \in 1 .. Len(cy) - 1 : cy[i].y = NoneV
    /\ (pc \in {"cpu1", "cpu2", "cpu3", "cpu4", "cpu5"} => pending = "none")
    /\ (op = "get_cpu" /\ pc \in {"exit", "done"} /\ entered = "client")
       => /\ pending = "none" /\ exc = "none"
          /\ cy # <<>>
          /\ ret = cy[Len(cy)].y
          /\ (ret = NoneV => Len(cy) = 5)

\* C7 witness: a request of an earlier method raised and a later method
\* still produced the value that is returned
C7_Witness ==
    /\ op = "get_cpu" /\ pc = "done"
    /\ probeRaised
    /\ Len(CpuYields) = 4
    /\ ret = Mean(5, 2)

\* the result a target that exceeded its deadline is to yield
TimeoutResult == [k |-> "Timeout", v |-> 0, n |-> 0]

\* C10 (as stated): a target whose whole operation, session open and all
\* probes together, took longer than the timeout yields a Timeout result.
C10_PerTargetDeadline ==
    (pc = "done" /\ elapsed > timeout) => ret = TimeoutResult

(***************************************************************************)
(* Properties of the fan-out (specification SpecBatch)                     *)
(***************************************************************************)
\* the batch operations C1 names
C1Ops == {"status", "power_watts", "get_cpu", "power_on", "power_off",
          "set_power_policy"}

\* C1: a batch operation over N targets always ends with N per-target
\* results bound to results; no exception of a target leaves the map and
\* aborts the batch.
C1_BatchReturnsAll ==
    (mode \in C1Ops /\ bpc = "done" /\ outcome # "interrupted")
        => (outcome = "completed" /\ Len(results) = ntargets)

\* C8: in the monitoring loops every tick that was started is completed with
\* a snapshot, and the loop is never ended by a failing target.
C8_TickAlwaysCompletes ==
    (mode \in MonitorModes /\ bpc \in {"loop", "done"}
        /\ outcome # "interrupted")
        => (Len(snapshots) = iteration /\ outcome # "aborted")

\* C9: with workers = K, never more than K per-target calls are between
\* session open and session release, for any number of targets.
C9_BoundedInFlight ==
    Cardinality(Running) <= workers

\* all K workers are busy while another target is still waiting its turn
C9_Witness ==
    /\ ntargets > workers
    /\ Cardinality(Running) = workers
    /\ \E i \in 1 .. ntargets : tstate[i] = "pending"

(***************************************************************************)
(* Properties of the power operations (specification Spec)                 *)
(***************************************************************************)
IsPost(r) == r[1] = "POST"
\* the reset requests of the running call, in order
PostsSent == SelectSeq(reqs, IsPost)
\* positions in the request log of the running call
LoginAt == {i \in 1 .. Len(reqs) : reqs[i][1] = "login"}
StateReadAt == {i \in 1 .. Len(reqs) : reqs[i] = <<"GET", "Systems/1">>}
LogoutAt == {i \in 1 .. Len(reqs) : reqs[i][1] = "logout"}

\* C11: in a power operation the login is over before the state read is
\* requested and the state read is over before a reset is sent; a reset is
\* only sent on a session that is logged in and not yet released.
C11_LoginReadReset ==
    /\ (pc \in {"status", "reset"} => loggedIn /\ client = "client")
    /\ (pc = "reset" => current_state \notin {"unset", Requested(op)})
    /\ \A i \in 1 .. Len(reqs) :
         /\ (i \in StateReadAt /\ op \in PowerOps)
               => /\ \E j \in LoginAt : j < i
                  /\ \A j \in LogoutAt : j > i
         /\ IsPost(reqs[i])
               => /\ \E j \in StateReadAt : j < i
                  /\ \A j \in LoginAt : j < i
                  /\ \A j \in LogoutAt : j > i

\* C11 witness: a finished power call that logged in, read the state, sent
\* the reset and logged out
C11_Witness ==
    /\ op \in PowerOps /\ pc = "done"
    /\ Len(PostsSent) = 1
    /\ logins = 1 /\ logouts = 1

\* a power call got past the state read with a state that is neither On
\* nor Off
ReadUnknown ==
    /\ op \in PowerOps
    /\ pc \in {"reset", "exit", "done"}
    /\ current_state \notin {"unset", "On", "Off"}

C13_ResetTypeByArguments ==
    /\ Len(PostsSent) <= 1
    /\ \A i \in 1 .. Len(PostsSent) :
         /\ op \in PowerOps
         /\ op = "power_on" => PostsSent[i][2] = "On"
         /\ op = "power_off" => (PostsSent[i][2] = "ForceOff" <=> force)
         /\ op = "power_off"
               => (PostsSent[i][2] = "GracefulShutdown" <=> ~force)

\* C13 witness: a power-off without force on a running device sent one
\* GracefulShutdown
C13_Witness ==
    /\ op = "power_off" /\ ~force /\ pc = "done"
    /\ current_state = "On"
    /\ PostsSent = <<<<"POST", "GracefulShutdown">>>>

(***************************************************************************)
(* Properties of the monitoring loop (specification SpecBatch)             *)
(***************************************************************************)
\* a tick has just been summarised: results still holds its list
TickSummarised ==
    /\ mode \in MonitorModes
    /\ snapshots # <<>>
    /\ bpc \in {"loop", "done"}
    /\ outcome \notin {"aborted", "interrupted"}

LastSnapshot == snapshots[Len(snapshots)]

\* the targets of the tick with a power reading, and the sum of the
\* readings of a set of targets
WithWatts == {i \in 1 .. Len(results) : results[i].r # NoneV}
RECURSIVE WattsOver(_)
WattsOver(S) ==
    IF S = {} THEN 0
    ELSE LET i == CHOOSE j \in S : TRUE
         IN results[i].r.v + WattsOver(S \ {i})

\* C14: the aggregates of a tick are computed over exactly the targets with
\* a reading: valid_readings is their number, the total is the sum of their
\* readings and the mean is the total divided by valid_readings.
C14_AggregatesOverValid ==
    TickSummarised =>
        /\ LastSnapshot.valid_readings = Cardinality(WithWatts)
        /\ LastSnapshot.total_servers = Len(results)
        /\ WithWatts # {} =>
             /\ LastSnapshot.total_watts = Num(WattsOver(WithWatts))
             /\ LastSnapshot.avg_watts =
                    Mean(WattsOver(WithWatts), Cardinality(WithWatts))

\* C14 witness: a tick over two targets, one with 5 W and one without a
\* reading, reported one valid reading and a mean of 5 / 1
C14_Witness ==
    /\ TickSummarised
    /\ Len(results) = 2
    /\ Cardinality(WithWatts) = 1
    /\ LastSnapshot.avg_watts = Mean(5, 1)

\* C15: a tick without any valid reading records the power total, the power
\* mean and the CPU mean as a no-data marker, never as the number zero, in
\* the summary and in the CSV row.
C15_NoDataMarker ==
    \A k \in 1 .. Len(snapshots) :
        /\ snapshots[k].valid_readings = 0 =>
             /\ snapshots[k].total_watts.k # "num"
             /\ snapshots[k].avg_watts.k # "num"
             /\ snapshots[k].csv.total_power_watts.k # "text"
             /\ snapshots[k].csv.avg_power_watts.k # "text"
        /\ snapshots[k].cpu_readings = 0 =>
             /\ snapshots[k].avg_cpu.k # "num"
             /\ snapshots[k].csv.avg_cpu_load.k # "text"

\* C16 (as stated): a monitoring loop called with iterations = n runs
\* exactly n ticks, hands n snapshots to the sink and returns without
\* sleeping after the last tick; with iterations = None it does not end on
\* its own.
C16_ExactlyNTicks ==
    (mode \in MonitorModes /\ bpc = "done" /\ outcome # "interrupted")
        => /\ iterations # NoLimit
           /\ iteration = iterations
           /\ Len(snapshots) = iterations
           /\ slept = 0

Max(a, b) == IF a >= b THEN a ELSE b

\* C17 (as stated): when the next tick is about to start, the time since
\* the start of the last tick is the interval when the work took less than
\* the interval, and the time of the work when it took longer.
C17_IntervalFromTickStart ==
    (mode \in MonitorModes /\ bpc = "loop" /\ iteration >= 1)
        => work + slept = Max(interval, work)

\* C18: when the monitoring loop returns after a KeyboardInterrupt, raised
\* during the sleep or while a batch runs, no worker is between session
\* open and session release.
C18_InterruptReleasesSessions ==
    (mode \in MonitorModes /\ bpc = "done" /\ outcome = "interrupted")
        => Running = {}

\* C18 witness: the loop was interrupted while a batch was running, a call
\* that was running then has ended, and the loop has returned
C18_Witness ==
    /\ mode \in MonitorModes /\ bpc = "done" /\ outcome = "interrupted"
    /\ \E i \in 1 .. ntargets : tstate[i] \in {"returned", "raised"}
    /\ \E i \in 1 .. ntargets : tstate[i] = "cancelled"

(***************************************************************************)
(* Properties of the CSV sink (specification SpecCsv)                      *)
(***************************************************************************)
\* C19: after any sequence of successful saves on a path that did not
\* exist, by one writer or by several at once, the file is one header line
\* followed by one data row per save, in the order of the saves.
C19_OneHeaderOneRowPerSave ==
    (\A w \in DOMAIN wpc : wpc[w] = "idle")
        => csvFile = IF saved = <<>> THEN <<>> ELSE <<Header>> \o saved

(***************************************************************************)
(* Properties of the session open (specification Spec)                     *)
(***************************************************************************)
\* C20 (as stated): an attempt of __enter__ that fails at connection level,
\* in redfish_client(...) or in the login calls, is followed by another
\* attempt while retries remain, and the session open never ends in
\* AuthenticationError because of it.
C20_ConnectionFailuresRetried ==
    /\ \A i \in 1 .. Len(fails) :
         (ConnLevel(fails[i]) /\ i <= max_retries)
             => (attempts > i \/ (i = Len(fails) /\ entered = "no"))
    /\ (entered = "AuthenticationError" => ~ConnLevel(fails[Len(fails)]))

(***************************************************************************)
(* Properties of the two login modes (specification Spec)                  *)
(***************************************************************************)
IsLogin(r, auth) == r[1] = "login" /\ r[2] = auth

\* C21: in every attempt of the session open the session-token login comes
\* first, right after the client is created; the basic login is made only
\* right after a session-token login that failed; nothing is tried after a
\* login that succeeded, which returns the client; and the open ends in
\* AuthenticationError only after an attempt in which both logins failed.
C21_SessionThenBasic ==
    /\ \A i \in 1 .. Len(reqs) :
         /\ IsLogin(reqs[i], "session")
              => (i > 1 /\ reqs[i - 1] = <<"create", "ok">>)
         /\ IsLogin(reqs[i], "basic")
              => (i > 1 /\ IsLogin(reqs[i - 1], "session")
                        /\ reqs[i - 1][3] # "ok")
         /\ (reqs[i][1] = "login" /\ reqs[i][3] = "ok")
              => /\ entered = "client"
                 /\ (i < Len(reqs) => reqs[i + 1][1] \notin {"login", "create"})
         /\ (IsLogin(reqs[i], "session") /\ reqs[i][3] # "ok")
              => (i < Len(reqs) /\ IsLogin(reqs[i + 1], "basic"))
    /\ (entered = "AuthenticationError")
         <=> (\E i \in 1 .. Len(reqs) :
                IsLogin(reqs[i], "basic") /\ reqs[i][3] # "ok")
    /\ (entered = "client")
         <=> (\E i \in 1 .. Len(reqs) :
                reqs[i][1] = "login" /\ reqs[i][3] = "ok")

\* C21 witness: the session-token login failed, the basic login succeeded
\* and the with-body runs with the client
C21_Witness ==
    /\ entered = "client"
    /\ \E i \in 2 .. Len(reqs) :
         /\ IsLogin(reqs[i], "basic") /\ reqs[i][3] = "ok"
         /\ IsLogin(reqs[i - 1], "session") /\ reqs[i - 1][3] = "failed"

(***************************************************************************)
(* Properties of the reset request (specification Spec)                    *)
(***************************************************************************)
\* C25: once power_on_system / power_off_system have sent the reset
\* request, the only request that follows is the logout of the session
\* release; the value returned is True exactly when the request was
\* answered with status 200, 202 or 204; and the time the call took is the
\* time of its requests and of the retry sleeps of the session open, with
\* no wait for the device to change state.
C25_ResultByResetStatus ==
    \A i \in 1 .. Len(reqs) :
      IsPost(reqs[i]) =>
        /\ pc \in {"exit", "done"}
        /\ Len(reqs) <= i + 1
        /\ resp # Unset
        /\ ret = Bool(resp.k = "num" /\ resp.v \in {200, 202, 204})
        /\ pc = "done" =>
             /\ Len(reqs) = i + 1
             /\ reqs[i + 1][1] = "logout"
             /\ exc = "none"
             /\ ~loggedIn
             /\ elapsed = latency * (attempts + 3) + retry_delay * sleeps

\* C25 witness: a graceful shutdown was accepted with 202, the call has
\* returned True and released the session, and the device is still on
C25_Witness ==
    /\ pc = "done" /\ op = "power_off" /\ ~force
    /\ resp = Num(202)
    /\ ret = Bool(TRUE)
    /\ power = "On"
    /\ PostsSent = <<<<"POST", "GracefulShutdown">>>>

\* C26: a reset request answered with a status other than 200, 202 and
\* 204, or one whose client.post raised, makes the power operation return
\* False: no exception leaves the call, and the session it opened is
\* logged out.
C26_RejectedResetReturnsFalse ==
    (resp = Absent \/ (resp.k = "num" /\ resp.v \notin {200, 202, 204}))
        => /\ pc \in {"exit", "done"}
           /\ ret = Bool(FALSE)
           /\ pending = "none"
           /\ exc = "none"
           /\ pc = "done" => /\ logouts = 1
                             /\ ~loggedIn
                             /\ client = "None"
                             /\ reqs[Len(reqs)][1] = "logout"

\* C26 witness: client.post raised in a power-on, and the call has returned
\* False after the logout
C26_Witness ==
    /\ pc = "done" /\ op = "power_on"
    /\ resp = Absent
    /\ ret = Bool(FALSE) /\ exc = "none"
    /\ logouts = 1

(***************************************************************************)
(* Properties of the state read (specification Spec)                       *)
(***************************************************************************)
\* C30 (as stated): get_power_status never raises: once a power operation
\* has made its state read, whatever the request did, no exception unwinds
\* or has left the call, and current_state holds "On", "Off" or a string
\* beginning with "Unknown".
C30_StatusNeverRaises ==
    (op \in PowerOps /\ StateReadAt # {})
        => /\ pending = "none"
           /\ exc = "none"
           /\ (current_state \in {"On", "Off"}
                 \/ StartsWithUnknown(current_state))

(***************************************************************************)
(* Properties of the composite CPU probes (specification SpecPure)         *)
(***************************************************************************)
\* the members of the answer whose sub-reading is a number: for Method 4
\* the detail request returned an Oem block and the first of
\* CurrentUtilization, ProcessorUtilization, UtilizationPercent present
\* holds a number; for Method 5 the first of ProcessorUtilization,
\* Utilization present holds a number
NumericMembers ==
    {i \in 1 .. Len(arg.members) :
       LET mb == arg.members[i] IN
       IF fn = "cpu4"
       THEN /\ mb.kind = "data"
            /\ \/ mb.cu.k = "num"
               \/ mb.cu = Absent /\ mb.pu.k = "num"
               \/ mb.cu = Absent /\ mb.pu = Absent /\ mb.up.k = "num"
       ELSE \/ mb.pu.k = "num"
            \/ mb.pu = Absent /\ mb.ut.k = "num"}

\* the sub-reading of a member of NumericMembers
SubReading(i) ==
    LET mb == arg.members[i] IN
    IF fn = "cpu4"
    THEN (IF mb.cu.k = "num" THEN mb.cu.v
          ELSE IF mb.pu.k = "num" THEN mb.pu.v ELSE mb.up.v)
    ELSE (IF mb.pu.k = "num" THEN mb.pu.v ELSE mb.ut.v)

RECURSIVE SumOver(_)
SumOver(S) ==
    IF S = {} THEN 0
    ELSE LET i == CHOOSE x \in S : TRUE IN SubReading(i) + SumOver(S \ {i})

\* the probe averages: Method 4 always, Method 5 when the answer has
\* members and no AverageProcessorUtilization key
Averages ==
    /\ fn \in {"cpu4", "cpu5"}
    /\ arg.kind = "data"
    /\ fn = "cpu5" => (arg.members # <<>> /\ arg.avg = Absent)

\* C24: a composite CPU probe that averages the sub-readings of its
\* members yields the sum of the numeric sub-readings divided by their
\* number; with no numeric sub-reading it yields None, never zero, and
\* discovery goes on to the next probe, or returns None after the last.
C24_MeanOfNumericSubReadings ==
    (Averages /\ goes # "call")
        => /\ NumericMembers # {}
                => /\ out = Mean(SumOver(NumericMembers),
                                 Cardinality(NumericMembers))
                   /\ goes = "exit"
           /\ NumericMembers = {}
                => /\ out = NoneV
                   /\ goes = IF fn = "cpu4" THEN "cpu5" ELSE "return None"

\* C24 witness: Method 4 got two processors, one whose detail request
\* failed and one with a numeric sub-reading, and yielded the mean over the
\* one number
C24_Witness ==
    /\ fn = "cpu4" /\ goes = "exit"
    /\ Len(arg.members) = 2
    /\ arg.members[1].kind = "exc"
    /\ NumericMembers = {2}
    /\ out = Mean(5, 1)

(***************************************************************************)
(* Properties of the systems file reader (specification SpecPure)          *)
(***************************************************************************)
\* a cell that is present and not empty
Filled(c) == ~c.na /\ Strip(c.text) # ""
\* a cell that is present, not empty and not one of the words nan, none,
\* null in any case
Named(c) == Filled(c) /\ Lower(Strip(c.text)) \notin {"nan", "none", "null"}

\* the rows of the file whose three required cells all satisfy Ok
RowsWith(Ok(_)) ==
    {i \in 1 .. Len(arg.rows) : \A f \in required_fields : Ok(arg.rows[i][f])}

\* the k-th smallest element of S
Pos(S, k) == CHOOSE i \in S : Cardinality({j \in S : j <= i}) = k

\* the list out holds, in file order, one record for every row of V and
\* nothing else, each with the three required fields of its row, not empty
ListsInOrder(V) ==
    /\ Len(out) = Cardinality(V)
    /\ \A k \in 1 .. Len(out) :
         \A f \in required_fields :
           /\ f \in DOMAIN out[k]
           /\ out[k][f] # ""
           /\ out[k][f] = Strip(arg.rows[Pos(V, k)][f].text)

\* C29 (as stated): the list read_ilo_systems_from_csv returns holds only
\* records with ip, username and password present and non-empty, and holds
\* every row in which the three are present and non-empty, in file order.
C29_ValidRowsInFileOrder ==
    (fn = "read_csv" /\ goes = "exit") => ListsInOrder(RowsWith(Filled))

\* C29 (amended): the list holds only records with ip, username and
\* password present and non-empty, and holds every row in which each of the
\* three is present, non-empty and not the word nan, none or null, in file
\* order.
C29_NamedRowsInFileOrder ==
    (fn = "read_csv" /\ goes = "exit") => ListsInOrder(RowsWith(Named))

\* C29 witness: of three rows the second has no password; the first and the
\* third were returned, in that order
C29_Witness ==
    /\ fn = "read_csv" /\ goes = "exit"
    /\ Len(arg.rows) = 3
    /\ RowsWith(Named) = {1, 3}
    /\ arg.rows[2].password = NaN
    /\ arg.rows[1].ip # arg.rows[3].ip
    /\ Len(out) = 2
    /\ out[1].ip = Strip(arg.rows[1].ip.text)
    /\ out[2].ip = Strip(arg.rows[3].ip.text)

(***************************************************************************)
(* Properties of the detailed CSV rows (specification SpecBatch)           *)
(***************************************************************************)
\* C27 (as stated): every tick of monitor_full that reaches its summary
\* writes one row per target to the CSV file, in target order, whatever the
\* readings of the targets and whether or not any of them reports
\* SystemUsage.
C27_OneRowPerTargetPerTick ==
    mode = "monitor_full"
        => \A k \in 1 .. Len(snapshots) :
             /\ Len(snapshots[k].full_rows) = ntargets
             /\ \A i \in 1 .. ntargets : snapshots[k].full_rows[i].ip = i

(***************************************************************************)
(* Properties of the exit status (specification SpecBatch)                 *)
(***************************************************************************)
\* the per-target result is a failure: False of an action, None of a
\* reading
Failed(res) == res.r \in {Bool(FALSE), NoneV}

\* C28 (as stated): a batch run that handled every target ends with exit
\* status zero exactly when no target's result is a failure, and with a
\* non-zero status when at least one is.
C28_ExitStatusReportsFailure ==
    (mode \in BatchModes /\ bpc = "done" /\ outcome = "completed")
        => (ExitStatus(outcome) = 0
              <=> \A i \in 1 .. Len(results) : ~Failed(results[i]))

(***************************************************************************)
(* Properties of version 1.0.0's monitoring (specification SpecLegacy)     *)
(***************************************************************************)
\* the CPU reading the requests of the running tick yielded: the number of
\* Oem.Hpe.ProcessorUtilization, else the number of the fallback probes
\* that were run, else none
FreshCpu(g) ==
    IF g.oem.k = "num" THEN g.oem
    ELSE IF g.probed.k = "num" THEN g.probed
    ELSE NoneV

\* C22 (as stated): the power and CPU readings monitor_power_periodically
\* records for a target in a tick are the ones the requests of that tick
\* yielded, and the tick's aggregate counts a CPU reading only for the
\* targets whose CPU requests of that tick yielded one.
C22_ReadingsFromThisTick ==
    (mode = LegacyMode /\ iteration >= 1)
        => /\ \A i \in 1 .. ntargets :
                tstate[i] = "returned"
                  => /\ ilo_systems[i].watts = got[i].watts
                     /\ Get(ilo_systems[i].cpu_load) = FreshCpu(got[i])
           /\ Len(snapshots) = iteration
                => snapshots[iteration].valid_cpu_readings =
                     Cardinality({i \in 1 .. ntargets :
                                    IsNotNone(FreshCpu(got[i]))})

\* C23 (as stated): every dictionary of the target list has, at any time of
\* the run, exactly the keys and values it had when the run started.
C23_DescriptorsUnchanged ==
    mode = LegacyMode
        => \A i \in 1 .. ntargets : ilo_systems[i] = Descriptor(i)

(***************************************************************************)
(* Properties of the --power-watts and --get-cpu batches (SpecBatch)       *)
(***************************************************************************)
\* the batch has printed its summary
BatchReported ==
    mode \in ReadingModes /\ bpc = "done" /\ outcome = "completed"

\* C31: in the --power-watts and --get-cpu batches a target whose session
\* open or probing fails yields None and no exception reaches the main
\* thread; the summary is computed over exactly the targets with a reading
\* (count, sum and mean), as if the failed targets were not there.
C31_FailedTargetLeavesOthers ==
    /\ \A m \in ReadingModes, cond \in Conds \ {"fine"}, w \in Readings :
         /\ ~Propagates(m, cond)
         /\ Returned(m, cond, w, w, FALSE).r = NoneV
    /\ mode \in ReadingModes =>
         /\ \A i \in 1 .. ntargets : tstate[i] # "raised"
         /\ outcome # "aborted"
    /\ BatchReported =>
         /\ Len(results) = ntargets
         /\ snapshots[1].valid_readings = Cardinality(WithWatts)
         /\ WithWatts # {} =>
              /\ snapshots[1].total_watts = Num(WattsOver(WithWatts))
              /\ snapshots[1].avg_watts =
                     Mean(WattsOver(WithWatts), Cardinality(WithWatts))

\* a batch of two targets is over: the first yielded None, the second a
\* reading, and the summary counts one reading
C31_Witness ==
    /\ BatchReported
    /\ ntargets = 2
    /\ results[1].r = NoneV
    /\ results[2].r = Num(5)
    /\ snapshots[1].valid_readings = 1
    /\ snapshots[1].total_watts = Num(5)

\* C32: at every moment the worker of a target holds at most one open
\* session to it, for every operation, set_power_policy included: sessions
\* are never nested for the same target.
C32_AtMostOneSessionPerTarget ==
    \A i \in 1 .. ntargets : OpenSessions(i) <= 1

(***************************************************************************)
(* Properties of single probes (specification SpecPure)                    *)
(***************************************************************************)
\* the probe has been applied to a JSON answer
ProbeApplied(f) == fn = f /\ goes # "call" /\ arg.kind = "data"

\* a key that is absent or null
NoValue(f) == ~IsNotNone(Get(f))

\* C33: in the System OEM probe of get_cpu_utilization
\* ProcessorUtilization has priority and SystemUsage.CPUUtil is returned
\* whenever it is non-null and ProcessorUtilization is absent or null; in
\* the PowerSubsystem probe of get_power_watts a later key is used whenever
\* every earlier key is absent or null.
C33_LaterKeyWhenEarlierAbsentOrNull ==
    /\ ProbeApplied("cpu1") =>
         /\ ~NoValue(arg.pu) => out = arg.pu
         /\ NoValue(arg.pu) /\ ~NoValue(arg.su) => out = arg.su
    /\ ProbeApplied("power2") =>
         /\ ~NoValue(arg.pm) => out = arg.pm
         /\ NoValue(arg.pm) /\ ~NoValue(arg.direct) => out = arg.direct
         /\ NoValue(arg.pm) /\ NoValue(arg.direct) /\ ~NoValue(arg.alt)
              => out = arg.alt

\* C34: the result list of a batch is in input order: whatever order the
\* workers finish in, the result added to the list in position i is the
\* value the call for the i-th target returned, and the list bound to
\* results holds one result per target.
C34_ResultsInInputOrder ==
    [][/\ (collected' # collected /\ collected' # <<>>) =>
            /\ tstate[Len(collected) + 1] = "returned"
            /\ collected' = Append(collected, tres[Len(collected) + 1])
       /\ (results' # results /\ results' # <<>>) =>
            /\ results' = collected
            /\ Len(results') = ntargets]_vars

\* the call for the second target has returned a reading while the call
\* for the first target is still running: nothing is in the list yet
C34_Witness ==
    /\ bpc = "collect" /\ mode = "power_watts"
    /\ ntargets = 2
    /\ tstate[1] = "running" /\ tstate[2] = "returned"
    /\ tres[2].r = Num(5)
    /\ collected = <<>>

\* the results of the tick with a watts value, and the sum of their values
Valued == {i \in 1 .. Len(arg) : arg[i] # NoneV}
RECURSIVE ArgSum(_)
ArgSum(S) ==
    IF S = {} THEN 0
    ELSE LET i == CHOOSE x \in S : TRUE IN arg[i].v + ArgSum(S \ {i})

\* the members whose sub-reading is the number 0
ZeroMembers == {i \in NumericMembers : SubReading(i) = 0}

\* C35: a reading of 0 is a reading everywhere.  A probe that yields any
\* value, 0 included, ends discovery, and only a probe without a value
\* lets it go on; a sub-reading of 0 is counted in the composite mean; the
\* aggregate of a tick counts every result that is not None, a 0 included,
\* in valid_readings, in the total and in the mean.
C35_ZeroIsAReading ==
    /\ (fn \in {"cpu1", "power2", "cpu4", "cpu5"} /\ goes # "call") =>
         (out # NoneV <=> goes = "exit")
    /\ (Averages /\ goes # "call" /\ ZeroMembers # {}) =>
         out = Mean(SumOver(NumericMembers), Cardinality(NumericMembers))
    /\ (fn = "aggregate" /\ goes # "call") =>
         /\ out.valid_readings = Cardinality(Valued)
         /\ Valued # {} =>
              /\ out.total_watts = Num(ArgSum(Valued))
              /\ out.avg_watts = Mean(ArgSum(Valued), Cardinality(Valued))

\* Method 4 got two processors whose sub-readings are 0 and 5: it yields
\* the mean over both and discovery ends
C35_Witness ==
    /\ fn = "cpu4" /\ goes = "exit"
    /\ Len(arg.members) = 2
    /\ MemberUtil4(arg.members[1]) = Num(0)
    /\ MemberUtil4(arg.members[2]) = Num(5)
    /\ out = Mean(5, 2)

(***************************************************************************)
(* Properties of get_system_power_watts of 1.0.0 (specification SpecPure)  *)
(***************************************************************************)
RECURSIVE RoundReqs(_)
RoundReqs(rs) == IF rs = <<>> THEN 0 ELSE Head(rs).reqs + RoundReqs(Tail(rs))

\* C36: get_system_power_watts makes at most max_retries+1 probe rounds;
\* every round but the last ended without a value, so the first round with
\* a value is the last one and no request follows it; it sleeps
\* retry_delay before every round except the first; it returns the value
\* of the last round, and None only after max_retries+1 rounds without a
\* value.
C36_BoundedProbeRounds ==
    fn = "get_system_power_watts" =>
        /\ Len(arg.rounds) = arg.retry_count
        /\ Len(arg.rounds) <= arg.max_retries + 1
        /\ \A k \in 1 .. Len(arg.rounds) :
             /\ k < Len(arg.rounds) => arg.rounds[k].watts = NoneV
             /\ arg.rounds[k].slept = IF k = 1 THEN 0 ELSE retry_delay
             /\ arg.rounds[k].reqs \in {1, 2}
        /\ arg.reqs = (IF goes = "call" THEN 0 ELSE 1) + RoundReqs(arg.rounds)
        /\ goes = "exit" =>
             /\ out = arg.rounds[Len(arg.rounds)].watts
             /\ out = NoneV => Len(arg.rounds) = arg.max_retries + 1

\* with max_retries = 1 the first round gave nothing, the second, after a
\* sleep of retry_delay, gave 5 watts, which is returned
C36_Witness ==
    /\ fn = "get_system_power_watts" /\ goes = "exit"
    /\ arg.max_retries = 1
    /\ Len(arg.rounds) = 2
    /\ arg.rounds[1].watts = NoneV
    /\ arg.rounds[2] = [slept |-> retry_delay, reqs |-> 1, watts |-> Num(5)]
    /\ out = Num(5)

====
